---- MODULE Spec2Model ----
(***************************************************************************)
(* Model of the deployment pipeline and its progress broadcaster           *)
(* (aws_deployer_app/api_server.py): _deploy_with_boto3 and the steps it   *)
(* drives, the synchronous endpoint deploy() and the streaming endpoint    *)
(* deploy_stream() with its worker thread run_deployment(), its queue and  *)
(* its consumer generator event_stream().                                  *)
(*                                                                         *)
(* Texts are sequences of atoms.  An atom stands for a fixed piece of a    *)
(* string (a word, a punctuation mark, or one blank " "), so substring     *)
(* search, lower-casing and whitespace splitting are computed on the text  *)
(* and not assumed.                                                        *)
(***************************************************************************)
EXTENDS Integers, Sequences, FiniteSets, TLC

\* ------------------------------------------------------------------------
\* Bounds of the model (not program constants)
\* ------------------------------------------------------------------------

\* Queue-wait timeouts counted after the client went away (saturating).
MaxTimeouts == 2

\* In a streaming run the SSM agent answers one of the first MaxNotReady + 1
\* probes or none at all; a synchronous run has no such restriction.
MaxNotReady == 0

\* ------------------------------------------------------------------------
\* Program constants
\* ------------------------------------------------------------------------

\* _wait_for_ssm(..., max_retries: int = 30)
max_retries == 30

\* ------------------------------------------------------------------------
\* Text helpers
\* ------------------------------------------------------------------------

\* Python None for the optional string variables (instance_id, public_dns).
NoneVal == <<"None">>

Last(s) == s[Len(s)]

\* Words separated by single blanks: Sp(<<"a","b">>) = <<"a"," ","b">>.
RECURSIVE Sp(_)
Sp(ws) ==
    IF Len(ws) = 0 THEN <<>>
    ELSE IF Len(ws) = 1 THEN <<ws[1]>>
    ELSE <<ws[1], " ">> \o Sp(Tail(ws))

\* Python `pat in text` on strings.
Contains(text, pat) ==
    \E i \in 1..(Len(text) - Len(pat) + 1) :
        \A j \in 1..Len(pat) : text[i + j - 1] = pat[j]

\* Python str.split(): the maximal blank-free pieces, in order.
RECURSIVE SplitFrom(_, _, _)
SplitFrom(text, cur, acc) ==
    IF Len(text) = 0
    THEN IF Len(cur) = 0 THEN acc ELSE Append(acc, cur)
    ELSE IF Head(text) = " "
         THEN SplitFrom(Tail(text), <<>>,
                        IF Len(cur) = 0 THEN acc ELSE Append(acc, cur))
         ELSE SplitFrom(Tail(text), Append(cur, Head(text)), acc)

Split(text) == SplitFrom(text, <<>>, <<>>)

\* Python str.lower(), atom by atom: the atoms that contain capitals.
LowerPairs ==
    { <<"Checking", "checking">>, <<"AWS", "aws">>, <<"Using", "using">>,
      <<"AMI", "ami">>, <<"Finding", "finding">>, <<"Amazon", "amazon">>,
      <<"Linux", "linux">>, <<"Deep", "deep">>, <<"Learning", "learning">>,
      <<"Base", "base">>, <<"OSS", "oss">>, <<"Nvidia", "nvidia">>,
      <<"Driver", "driver">>, <<"GPU", "gpu">>, <<"Security", "security">>,
      <<"Created", "created">>, <<"SSM", "ssm">>, <<"SSH", "ssh">>,
      <<"Launching", "launching">>, <<"EC2", "ec2">>, <<"IAM", "iam">>,
      <<"Instance", "instance">>, <<"Waiting", "waiting">>, <<"Public", "public">>,
      <<"DNS", "dns">>, <<"Installing", "installing">>, <<"Docker", "docker">>,
      <<"Configuring", "configuring">>, <<"Pulling", "pulling">>, <<"ECR", "ecr">>,
      <<"Container", "container">>, <<"Deployment", "deployment">>, <<"ERROR", "error">>,
      <<"Command", "command">>, <<"T", "t">>, <<"Z", "z">>,
      <<"CLI", "cli">>, <<"Key", "key">>, <<"Creating", "creating">>,
      <<"SSO", "sso">>, <<"PULLING", "pulling">>, <<"HPC6A", "hpc6a">>,
      <<"G5", "g5">>, <<"CPU", "cpu">> }

LowerMap == [a \in {p[1] : p \in LowerPairs} |->
                (CHOOSE p \in LowerPairs : p[1] = a)[2]]

LowerAtom(a) == IF a \in DOMAIN LowerMap THEN LowerMap[a] ELSE a

Lower(text) == [i \in 1..Len(text) |-> LowerAtom(text[i])]

\* datetime.utcnow().strftime('%Y-%m-%dT%H:%M:%SZ'): digits, T and Z.
Timestamp == <<"2026-01-01", "T", "00:00:00", "Z">>

\* _log_message(message): "<timestamp> - <message>"
LogMessage(message) == Timestamp \o <<" ", "-", " ">> \o message

\* ------------------------------------------------------------------------
\* AwsMilestones: ordered (substring, percent) pairs
\* ------------------------------------------------------------------------
\* (as if installing Docker were listed at 72, above its completion at 70)
InstallAfterCompletion == <<
    <<Sp(<<"checking", "aws", "cli", "prerequisites">>), 5>>,
    <<Sp(<<"key", "pair">>), 10>>,
    <<Sp(<<"finding", "latest">>), 15>>,
    <<Sp(<<"creating", "security", "group">>), 20>>,
    <<Sp(<<"launching", "ec2">>), 30>>,
    <<Sp(<<"waiting", "for", "instance", "state">>), 40>>,
    <<Sp(<<"waiting", "for", "aws", "status", "checks">>), 50>>,
    <<Sp(<<"ssh", "connection", "established">>), 55>>,
    <<Sp(<<"installing", "docker">>), 72>>,
    <<Sp(<<"docker", "installation", "completed">>), 70>>,
    <<Sp(<<"configuring", "aws", "credentials">>), 75>>,
    <<Sp(<<"aws", "sso", "credentials", "configured">>), 80>>,
    <<Sp(<<"pulling">>), 85>>,
    <<Sp(<<"container", "deployment", "completed">>), 95>>,
    <<Sp(<<"deployment", "completed", "successfully">>), 100>>
    >>

AwsMilestones == <<
    <<Sp(<<"checking", "aws", "cli", "prerequisites">>), 5>>,
    <<Sp(<<"key", "pair">>), 10>>,
    <<Sp(<<"finding", "latest">>), 15>>,
    <<Sp(<<"creating", "security", "group">>), 20>>,
    <<Sp(<<"launching", "ec2">>), 30>>,
    <<Sp(<<"waiting", "for", "instance", "state">>), 40>>,
    <<Sp(<<"waiting", "for", "aws", "status", "checks">>), 50>>,
    <<Sp(<<"ssh", "connection", "established">>), 55>>,
    <<Sp(<<"installing", "docker">>), 60>>,
    <<Sp(<<"docker", "installation", "completed">>), 70>>,
    <<Sp(<<"configuring", "aws", "credentials">>), 75>>,
    <<Sp(<<"aws", "sso", "credentials", "configured">>), 80>>,
    <<Sp(<<"pulling">>), 85>>,
    <<Sp(<<"container", "deployment", "completed">>), 95>>,
    <<Sp(<<"deployment", "completed", "successfully">>), 100>>
    >>

\* The milestone loop of event_stream: index of the first table entry, from
\* entry k on, whose substring occurs in the lower-cased line; 0 when none.
RECURSIVE MilestoneFrom(_, _)
MilestoneFrom(lower, k) ==
    IF k > Len(AwsMilestones) THEN 0
    ELSE IF Contains(lower, AwsMilestones[k][1]) THEN k
    ELSE MilestoneFrom(lower, k + 1)

\* A loop that compares the line as it is written.
CaseSensitiveMilestone(data) == MilestoneFrom(data, 1)
FirstMilestone(data) == MilestoneFrom(Lower(data), 1)

\* ------------------------------------------------------------------------
\* Log lines and error details, as the f-strings of the source build them
\* ------------------------------------------------------------------------
Colon == <<":", " ">>

MsgChecking == Sp(<<"Checking", "AWS", "prerequisites">>) \o <<"...">>
MsgUsingCustomAmi(id) == Sp(<<"Using", "custom", "AMI">>) \o Colon \o id
MsgAmiRootDevice(dev) == Sp(<<"AMI", "root", "device">>) \o Colon \o dev
MsgFindingGpu ==
    Sp(<<"Finding", "latest", "Amazon", "Linux", "Deep", "Learning", "Base",
         "OSS", "Nvidia", "Driver", "GPU", "AMI", "(x86_64)">>) \o <<"...">>
MsgFindingCpu ==
    Sp(<<"Finding", "latest", "Amazon", "Linux", "2023", "AMI", "(x86_64)">>)
    \o <<"...">>
MsgUsingAmi(id, dev) ==
    Sp(<<"Using", "AMI">>) \o Colon \o id
    \o <<" ", "(", "root", " ", "device">> \o Colon \o dev \o <<")">>
MsgSgExists(name, id) ==
    Sp(<<"Security", "group">>) \o <<" ">> \o name
    \o <<" ", "already", " ", "exists", " ", "(">> \o id \o <<")">>
MsgSgCreated(id) ==
    Sp(<<"Created", "security", "group">>) \o Colon \o id
    \o <<" ", "(SSM-only,", " ", "no", " ", "SSH", " ", "rules)">>
MsgLaunching == Sp(<<"Launching", "EC2", "instance">>) \o <<"...">>
MsgCheckingRole(name) == Sp(<<"Checking", "IAM", "role">>) \o Colon \o name
MsgRoleOk(name) ==
    Sp(<<"IAM", "role">>) \o <<" ">> \o name \o <<" ">>
    \o Sp(<<"and", "instance", "profile", "already", "exist", "and", "are",
            "correctly", "configured">>)
MsgInstanceLaunched(id) == Sp(<<"Instance", "launched">>) \o Colon \o id
MsgWaitingRunning ==
    Sp(<<"Waiting", "for", "instance", "to", "be", "running">>) \o <<"...">>
MsgRunning(dns) ==
    Sp(<<"Instance", "is", "running">>) \o <<".", " ">>
    \o Sp(<<"Public", "DNS">>) \o Colon \o dns
MsgWaitingSsm(id) ==
    Sp(<<"Waiting", "for", "SSM", "agent", "to", "be", "ready", "on">>)
    \o <<" ">> \o id \o <<"...">>
MsgSsmAttempt(n) ==
    Sp(<<"SSM", "connection", "attempt">>)
    \o <<" ", ToString(n), "/", ToString(max_retries), "...">>
MsgSsmNotReady(n) ==
    Sp(<<"SSM", "not", "ready", "yet">>)
    \o <<" ", "(", "attempt", " ", ToString(n), "/", ToString(max_retries), ")", "...">>
MsgSsmAttemptFailed(n, what) ==
    Sp(<<"SSM", "connection", "attempt">>) \o <<" ", ToString(n), " ", "failed">>
    \o Colon \o what
MsgSsmEstablished == Sp(<<"SSM", "connection", "established">>)
MsgInstalling ==
    Sp(<<"Installing", "Docker", "and", "prerequisites", "on", "EC2",
         "instance", "(Amazon", "Linux", "2023)">>) \o <<"...">>
MsgSsmCommandFailed(e) == Sp(<<"SSM", "command", "failed">>) \o Colon \o e
MsgDockerCompleted == Sp(<<"Docker", "installation", "completed">>)
MsgConfiguring ==
    Sp(<<"Configuring", "AWS", "credentials", "on", "instance">>) \o <<"...">>
MsgConfigured == Sp(<<"AWS", "credentials", "configured", "on", "instance">>)
MsgPulling(repo) ==
    <<"Pulling", " ">> \o repo \o <<" ">>
    \o Sp(<<"container", "from", "ECR", "and", "starting", "it">>) \o <<"...">>
MsgContainerCompleted == Sp(<<"Container", "deployment", "completed">>)
MsgDeploymentCompleted ==
    Sp(<<"Deployment", "completed", "successfully">>) \o <<"!">>
MsgError(e) ==
    <<"[", "ERROR", "]", " ">> \o Sp(<<"Deployment", "failed">>) \o Colon \o e

DetailDeploymentFailed(e) == Sp(<<"Deployment", "failed">>) \o Colon \o e
DetailInvalidAmi(id, e) ==
    Sp(<<"Invalid", "custom", "AMI", "ID">>) \o <<" ">> \o id \o Colon \o e
DetailAmiFailed(e) == Sp(<<"Failed", "to", "get", "AMI", "details">>) \o Colon \o e
DetailSgCreateFailed(e) ==
    Sp(<<"Failed", "to", "create", "security", "group">>) \o Colon \o e
DetailRoleFailed(e) == Sp(<<"Failed", "to", "check", "IAM", "role">>) \o Colon \o e
DetailLaunchFailed(e) == Sp(<<"Failed", "to", "launch", "instance">>) \o Colon \o e
DetailSsmFailed ==
    Sp(<<"SSM", "connection", "failed", "after">>)
    \o <<" ", ToString(max_retries * 10), " ">>
    \o Sp(<<"seconds.", "Instance", "may", "still", "be", "initializing.">>)
DetailDockerFailed(m) == Sp(<<"Docker", "installation", "failed">>) \o Colon \o m
DetailAwsConfigFailed(m) == Sp(<<"AWS", "configuration", "failed">>) \o Colon \o m
DetailImageNotFound(repo, m) ==
    Sp(<<"Docker", "image", "not", "found", "in", "ECR.">>)
    \o <<" ">> \o Sp(<<"The", "repository">>) \o <<" ", "'">> \o repo \o <<"'", " ">>
    \o Sp(<<"appears", "to", "be", "empty.", "Please", "push", "an", "image", "to",
            "ECR">>)
    \o <<" ">> \o Sp(<<"Original", "error">>) \o Colon \o m
DetailContainerFailed(m) == Sp(<<"Container", "deployment", "failed">>) \o Colon \o m

\* The substrings log_callback looks for.
PatInstanceLaunched == Sp(<<"Instance", "launched">>) \o <<":">>
PatPublicDns == Sp(<<"Public", "DNS">>) \o <<":">>

\* Exceptions: type "None" (no exception), "HTTPException" or "Exception".
NoExc == [type |-> "None", status |-> 0, detail |-> <<>>]
HTTPException(status, detail) ==
    [type |-> "HTTPException", status |-> status, detail |-> detail]
OtherException(text) == [type |-> "Exception", status |-> 0, detail |-> text]

\* Python truthiness of an Optional[str].
Truthy(x) == x # NoneVal /\ x # <<>>

\* ------------------------------------------------------------------------
\* Inputs
\* ------------------------------------------------------------------------
Repository == <<"fbpic">>
InstanceType == <<"g5.xlarge">>
AccountId == <<"123456789012">>
RoleName == <<"inversion-deployer-instance-role-", "123456789012">>
SecurityGroupName == <<"inversion-deployer-default-", "123456789012">>
CustomAmi == <<"ami-custom">>
LatestAmi == <<"ami-latest">>
RootDevice == <<"/dev/xvda">>
SgId == <<"sg-1">>
NewInstance == <<"i-1">>
PublicDnsName == <<"ec2-1.compute.amazonaws.com">>

\* What an SSM probe shows while the agent is not ready yet: two ClientError
\* codes, an exception that is no ClientError, and a non-terminal status.
SsmFaults == {"InvalidInstanceId", "AccessDeniedException",
              "EndpointConnectionError", "InProgress"}

\* The not-ready answers tried in a streaming run.
StreamSsmFaults == {"InvalidInstanceId"}

\* The addresses describe_instances reads back: possibly empty in a
\* synchronous run, populated in a streaming run.
DnsAnswers(s) == IF s = "stream" THEN {PublicDnsName} ELSE {<<>>, PublicDnsName}

\* ------------------------------------------------------------------------
\* State
\* ------------------------------------------------------------------------
VARIABLES
    shape,            \* "sync": POST /api/deploy, "stream": GET /api/deploy/stream
    session_creds,    \* TRUE iff session credentials were supplied
    req_ami_id,       \* req.ami_id: NoneVal or a custom image id
    ssm_fault,        \* the provider's not-ready answer during _wait_for_ssm
    wpc,              \* position of the pipeline / worker thread
    wret,             \* continuation of the worker after log_callback
    attempt,          \* loop variable of _wait_for_ssm
    exc,              \* the exception being propagated
    original,         \* the first exception a step raised (history)
    logs,             \* logs list of _deploy_with_boto3
    trace,            \* pipeline steps started, in order (history)
    requests,         \* run_instances and step commands submitted (history)
    created,          \* id returned by run_instances, NoneVal before
    dns,              \* PublicDnsName read back by _launch_ec2_instance
    ssm_status,       \* result['Status'] of the latest readiness probe
    result,           \* (success, output, error) of the latest _run_ssm_command
    logs_queue,       \* queue.Queue() of event_stream
    puts,             \* types of all items ever put on logs_queue (history)
    instance_id,      \* nonlocal of event_stream
    public_dns,       \* nonlocal of event_stream
    deployment_done,  \* nonlocal of event_stream
    deployment_error, \* nonlocal of event_stream
    thread_alive,     \* deploy_thread.is_alive()
    cpc,              \* position of the consumer generator
    item,             \* the consumer's current queue item
    connected,        \* the client is still reading the stream
    emitted,          \* events delivered to the client (history)
    timeouts,         \* queue-wait timeouts of the loop since the client went away
    terminate_calls   \* terminate_instances calls issued (history)

reqVars == <<shape, session_creds, req_ami_id>>
localVars == <<attempt, trace, requests, created, dns, ssm_status, result, ssm_fault>>
nonlocalVars == <<instance_id, public_dns, deployment_done, deployment_error,
                  thread_alive>>
consVars == <<cpc, item, connected, emitted, timeouts, terminate_calls>>
deployVars == <<shape, session_creds, req_ami_id, ssm_fault, wpc, wret, attempt,
                exc, original, logs, trace, requests, created, dns, ssm_status,
                result, logs_queue, puts, instance_id, public_dns, deployment_done,
                deployment_error, thread_alive, cpc, item, connected, emitted,
                timeouts, terminate_calls>>

\* State of one call of _run_ssm_command.
VARIABLES
    cmd_pc,           \* position inside _run_ssm_command
    cmd_timeout,      \* its timeout argument
    cmd_cb,           \* TRUE iff a log_callback was passed
    cmd_i,            \* status polls completed without a terminal status
    cmd_ret,          \* the tuple returned
    cmd_exc,          \* the exception that left the function
    cmd_fault,        \* the exception the provider call raised (history)
    cmd_cause,        \* why the call ended (history)
    cmd_logs,         \* lines handed to log_callback
    cmd_sent,         \* send_command calls made (history)
    cmd_polls         \* get_command_invocation calls made (history)

cmdVars == <<cmd_pc, cmd_timeout, cmd_cb, cmd_i, cmd_ret, cmd_exc, cmd_fault,
             cmd_cause, cmd_logs, cmd_sent, cmd_polls>>

\* State of concurrent callers of _ensure_security_group and of the provider.
VARIABLES
    sg_group,         \* GroupId of the named group at the provider, NoneVal if none
    sg_made,          \* groups the provider has created so far
    sg_foreign,       \* changes made to the group by somebody else (history)
    sg_denied,        \* the credentials may not describe security groups
    sg_pc,            \* per caller: position inside _ensure_security_group
    sg_cur,           \* per caller: what the running call did so far
    sg_hist           \* per caller: the outcome of each finished call (history)

sgVars == <<sg_group, sg_made, sg_foreign, sg_denied, sg_pc, sg_cur, sg_hist>>

\* The in-memory session store of auth_routes and one call of
\* cloudformation_verify.
VARIABLES
    aws_sessions,     \* session id -> stored session
    vf_pc,            \* position inside cloudformation_verify
    vf_attempt,       \* loop variable of the retry loop
    vf_first_attempt, \* the first_attempt flag
    vf_sleeps,        \* time.sleep(retry_delay) calls made (history)
    vf_codes,         \* outcome of every sts.assume_role call (history)
    vf_iam,           \* outcome of iam_client.get_role (history)
    vf_db,            \* outcome of the connection write (history)
    vf_creds,         \* response['Credentials'] of the successful call
    vf_session_id,    \* the session id generated
    vf_ret,           \* the response returned
    vf_exc,           \* the exception that left the handler
    vf_before,        \* the store when the handler was entered (history)
    vf_read           \* a later get_session_credentials with the returned id

verifyVars == <<vf_pc, vf_attempt, vf_first_attempt, vf_sleeps, vf_codes, vf_iam,
                vf_db, vf_creds, vf_session_id, vf_ret, vf_exc, vf_before, vf_read>>

\* Concurrent requests calling get_session_credentials.
VARIABLES
    rd_clock,         \* the wall clock, in seconds
    rd_store0,        \* the store before any reader ran (history)
    rd_pc,            \* per reader: position inside get_session_credentials
    rd_id,            \* per reader: its session_id argument
    rd_session,       \* per reader: session = aws_sessions.get(session_id)
    rd_now,           \* per reader: now = datetime.now(timezone.utc)
    rd_out            \* per reader: how its call ended (history)

readVars == <<rd_clock, rd_store0, rd_pc, rd_id, rd_session, rd_now, rd_out>>

\* Log lines fed to the milestone loops.
VARIABLES
    ms_path,          \* "stream": event_stream; "desktop": DeploymentWorker.run
    ms_pc,            \* "idle", or "match" once the line's log event is out
    ms_line,          \* the line being handled
    ms_events         \* events emitted so far (history)

msVars == <<ms_path, ms_pc, ms_line, ms_events>>

\* One call of _launch_ec2_instance, up to the create-instance request.
VARIABLES
    lr_type,          \* instance_type
    lr_region,        \* region
    lr_az,            \* availability_zone, or None
    lr_subnet,        \* subnet_id, or None
    lr_pc,            \* position inside _launch_ec2_instance
    lr_group,         \* placement_group_name
    lr_params,        \* run_params
    lr_calls,         \* provider calls made so far (history)
    lr_exc            \* the exception the call raised

lrVars == <<lr_type, lr_region, lr_az, lr_subnet, lr_pc, lr_group, lr_params,
            lr_calls, lr_exc>>

\* One call of profile_sso_region.
VARIABLES
    sso_file,         \* ~/.aws/config: its sections, or no file
    sso_profile,      \* the profile argument
    sso_pc,           \* position inside profile_sso_region
    sso_ret           \* the value returned

ssoVars == <<sso_file, sso_profile, sso_pc, sso_ret>>

\* One call of _wait_for_ssm against a provider that may answer anything.
VARIABLES
    ws_pc,            \* position inside _wait_for_ssm
    ws_attempt,       \* the loop variable
    ws_probes,        \* send_command calls made (history)
    ws_sleeps,        \* time.sleep(10) calls made (history)
    ws_last,          \* how the latest probe ended
    ws_exc            \* the exception the call raised

wsVars == <<ws_pc, ws_attempt, ws_probes, ws_sleeps, ws_last, ws_exc>>

\* _ensure_iam_role against one account's IAM, called up to IamRuns times.
VARIABLES
    iam_pc,           \* position inside _ensure_iam_role / its caller
    iam_role,         \* provider: the role exists
    iam_trust,        \* provider: the service the role's trust policy names
    iam_ssm,          \* provider: AmazonSSMManagedInstanceCore is attached
    iam_s3,           \* provider: the inline S3 policy is present
    iam_profile,      \* provider: the instance profile exists
    iam_bound,        \* provider: the role bound to the profile
    iam_created,      \* profile_created
    iam_probes,       \* passes of the propagation wait loop made
    iam_ready,        \* a probe of the wait loop showed a bound role
    iam_run,          \* calls of _ensure_iam_role started
    iam_exc           \* the exception that left the function

iamVars == <<iam_pc, iam_role, iam_trust, iam_ssm, iam_s3, iam_profile, iam_bound,
             iam_created, iam_probes, iam_ready, iam_run, iam_exc>>

\* _launch_ec2_instance after run_instances: the running wait and the
\* reads of the address.
VARIABLES
    dn_pc,            \* position after run_instances
    dn_dns,           \* public_dns
    dn_reads,         \* describe_instances calls made (history)
    dn_sleeps,        \* time.sleep(10) calls made (history)
    dn_exc            \* the exception that left the function

dnVars == <<dn_pc, dn_dns, dn_reads, dn_sleeps, dn_exc>>

\* Image resolution and the container's GPU decision for one request.
VARIABLES
    im_pc,            \* position: _get_latest_ami, then _pull_and_run_container
    im_type,          \* req.instance_type
    im_repo,          \* req.repository
    im_ami_type,      \* req.ami_type
    im_image,         \* the class of image _get_latest_ami looked up
    im_flag,          \* gpu_flag
    im_exc            \* the exception that left _get_latest_ami

imVars == <<im_pc, im_type, im_repo, im_ami_type, im_image, im_flag, im_exc>>

\* State of the units that are followed one at a time.
unitVars == <<msVars, lrVars, ssoVars, wsVars, iamVars, dnVars, imVars>>

coreVars == <<deployVars, cmdVars, sgVars, aws_sessions, verifyVars, readVars>>

msRest == <<coreVars, lrVars, ssoVars, wsVars, iamVars, dnVars, imVars>>
lrRest == <<coreVars, msVars, ssoVars, wsVars, iamVars, dnVars, imVars>>
ssoRest == <<coreVars, msVars, lrVars, wsVars, iamVars, dnVars, imVars>>
wsRest == <<coreVars, msVars, lrVars, ssoVars, iamVars, dnVars, imVars>>
iamRest == <<coreVars, msVars, lrVars, ssoVars, wsVars, dnVars, imVars>>
dnRest == <<coreVars, msVars, lrVars, ssoVars, wsVars, iamVars, imVars>>
imRest == <<coreVars, msVars, lrVars, ssoVars, wsVars, iamVars, dnVars>>

\* State of the components the deployment pipeline model leaves alone.
otherVars == <<cmdVars, sgVars, aws_sessions, verifyVars, readVars, unitVars>>

vars == <<deployVars, otherVars>>

NoItem == [type |-> "none", data |-> <<>>]
NoResult == [success |-> FALSE, output |-> <<>>, error |-> <<>>, raised |-> FALSE]
NoReturn == [success |-> FALSE, output |-> <<>>, error |-> <<>>]

\* No call of _run_ssm_command is being followed.
CmdIdle ==
    /\ cmd_pc = "idle"
    /\ cmd_timeout = 0
    /\ cmd_cb = FALSE
    /\ cmd_i = 0
    /\ cmd_ret = NoReturn
    /\ cmd_exc = NoExc
    /\ cmd_fault = NoExc
    /\ cmd_cause = "none"
    /\ cmd_logs = <<>>
    /\ cmd_sent = 0
    /\ cmd_polls = 0

Callers == {1, 2}
NoCall == [probe |-> "none", creates |-> 0]

\* Nobody calls _ensure_security_group.
SgIdle ==
    /\ sg_group = NoneVal
    /\ sg_made = 0
    /\ sg_foreign = 0
    /\ sg_denied = FALSE
    /\ sg_pc = [p \in Callers |-> "idle"]
    /\ sg_cur = [p \in Callers |-> NoCall]
    /\ sg_hist = [p \in Callers |-> <<>>]

NoCreds == [AccessKeyId |-> "", SecretAccessKey |-> "", SessionToken |-> "",
            Expiration |-> [secs |-> 0, tz |-> "none"]]
NoResponse == [status |-> "none", session_id |-> "", expires_at |-> <<0, "">>,
               account_id |-> <<>>, role_arn |-> <<>>, attempt |-> 0]
NoSession == [access_key_id |-> "", secret_access_key |-> "", session_token |-> "",
              expiration |-> <<0, "">>, region |-> "", role_arn |-> <<>>,
              account_id |-> <<>>, org_id |-> ""]
NoRead == [time |-> 0, out |-> NoSession, exc |-> NoExc]
EmptyStore == [id \in {} |-> NoSession]

\* Nobody calls cloudformation_verify.
VerifyIdle ==
    /\ vf_pc = "idle"
    /\ vf_attempt = 0
    /\ vf_first_attempt = TRUE
    /\ vf_sleeps = 0
    /\ vf_codes = <<>>
    /\ vf_iam = "none"
    /\ vf_db = "none"
    /\ vf_creds = NoCreds
    /\ vf_session_id = ""
    /\ vf_ret = NoResponse
    /\ vf_exc = NoExc
    /\ vf_before = EmptyStore
    /\ vf_read = NoRead

Readers == {1, 2}
NoOutcome == [present |-> FALSE, out |-> NoSession, exc |-> NoExc, removed |-> FALSE]

\* Nobody calls get_session_credentials.
ReadIdle ==
    /\ rd_clock = 0
    /\ rd_store0 = EmptyStore
    /\ rd_pc = [r \in Readers |-> "idle"]
    /\ rd_id = [r \in Readers |-> ""]
    /\ rd_session = [r \in Readers |-> NoSession]
    /\ rd_now = [r \in Readers |-> 0]
    /\ rd_out = [r \in Readers |-> NoOutcome]

\* No deployment is being followed.
DeployIdle ==
    /\ shape = "sync"
    /\ session_creds = FALSE
    /\ req_ami_id = NoneVal
    /\ ssm_fault = "None"
    /\ wpc = "idle"
    /\ wret = "idle"
    /\ attempt = 0
    /\ exc = NoExc
    /\ original = NoExc
    /\ logs = <<>>
    /\ trace = <<>>
    /\ requests = <<>>
    /\ created = NoneVal
    /\ dns = <<>>
    /\ ssm_status = "None"
    /\ result = NoResult
    /\ logs_queue = <<>>
    /\ puts = <<>>
    /\ instance_id = NoneVal
    /\ public_dns = NoneVal
    /\ deployment_done = FALSE
    /\ deployment_error = NoExc
    /\ thread_alive = FALSE
    /\ cpc = "none"
    /\ item = NoItem
    /\ connected = FALSE
    /\ emitted = <<>>
    /\ timeouts = 0
    /\ terminate_calls = <<>>

\* No line is fed to a milestone loop.
MilestoneIdle ==
    /\ ms_path = "none"
    /\ ms_pc = "idle"
    /\ ms_line = <<>>
    /\ ms_events = <<>>

EmptyParams == [k \in {} |-> <<>>]

\* Nobody calls _launch_ec2_instance.
LaunchIdle ==
    /\ lr_type = <<>>
    /\ lr_region = ""
    /\ lr_az = NoneVal
    /\ lr_subnet = NoneVal
    /\ lr_pc = "idle"
    /\ lr_group = NoneVal
    /\ lr_params = EmptyParams
    /\ lr_calls = <<>>
    /\ lr_exc = NoExc

NoFile == [exists |-> FALSE, sections |-> [n \in {} |-> <<>>]]

\* Nobody calls profile_sso_region.
SsoIdle ==
    /\ sso_file = NoFile
    /\ sso_profile = ""
    /\ sso_pc = "idle"
    /\ sso_ret = NoneVal

\* Nobody calls _wait_for_ssm.
WaitIdle ==
    /\ ws_pc = "idle"
    /\ ws_attempt = 0
    /\ ws_probes = 0
    /\ ws_sleeps = 0
    /\ ws_last = "None"
    /\ ws_exc = NoExc

IamIdle ==
    /\ iam_pc = "idle"
    /\ iam_role = FALSE
    /\ iam_trust = "none"
    /\ iam_ssm = FALSE
    /\ iam_s3 = FALSE
    /\ iam_profile = FALSE
    /\ iam_bound = "none"
    /\ iam_created = FALSE
    /\ iam_probes = 0
    /\ iam_ready = FALSE
    /\ iam_run = 0
    /\ iam_exc = NoExc

AddressIdle ==
    /\ dn_pc = "idle"
    /\ dn_dns = <<>>
    /\ dn_reads = 0
    /\ dn_sleeps = 0
    /\ dn_exc = NoExc

ImageIdle ==
    /\ im_pc = "idle"
    /\ im_type = <<>>
    /\ im_repo = <<>>
    /\ im_ami_type = NoneVal
    /\ im_image = "none"
    /\ im_flag = <<>>
    /\ im_exc = NoExc

UnitIdle == MilestoneIdle /\ LaunchIdle /\ SsoIdle /\ WaitIdle /\ IamIdle /\ AddressIdle /\ ImageIdle

CoreIdle ==
    /\ DeployIdle
    /\ CmdIdle
    /\ SgIdle
    /\ aws_sessions = EmptyStore
    /\ VerifyIdle
    /\ ReadIdle

Init ==
    /\ UnitIdle
    /\ shape \in {"sync", "stream"}
    \* deploy_stream rejects a request without session; deploy accepts it
    /\ session_creds \in (IF shape = "stream" THEN {TRUE} ELSE BOOLEAN)
    /\ req_ami_id \in (IF shape = "stream" THEN {NoneVal} ELSE {NoneVal, CustomAmi})
    /\ ssm_fault = "None"
    /\ wpc = "session"
    /\ wret = "session"
    /\ attempt = 0
    /\ exc = NoExc
    /\ original = NoExc
    /\ logs = <<>>
    /\ trace = <<>>
    /\ requests = <<>>
    /\ created = NoneVal
    /\ dns = <<>>
    /\ ssm_status = "None"
    /\ result = NoResult
    /\ logs_queue = <<>>
    /\ puts = <<>>
    /\ instance_id = NoneVal
    /\ public_dns = NoneVal
    /\ deployment_done = FALSE
    /\ deployment_error = NoExc
    /\ thread_alive = (shape = "stream")
    /\ cpc = IF shape = "stream" THEN "get" ELSE "none"
    /\ item = NoItem
    /\ connected = (shape = "stream")
    /\ emitted = <<>>
    /\ timeouts = 0
    /\ terminate_calls = <<>>
    /\ CmdIdle
    /\ SgIdle
    /\ aws_sessions = EmptyStore
    /\ VerifyIdle
    /\ ReadIdle

\* ------------------------------------------------------------------------
\* Building blocks of the worker's steps
\* ------------------------------------------------------------------------

\* queue.Queue() has no maxsize: put never blocks.
PutBlocksWhenFull(q) == Len(q) < 1
PutEnabled(q) == TRUE

\* log_callback of event_stream looks at these messages after the put.
Extracts(message) ==
    Contains(message, PatInstanceLaunched) \/ Contains(message, PatPublicDns)

\* log(msg) of _deploy_with_boto3: format, append to logs and hand the
\* formatted line to log_callback, which puts it on the queue.
log(msg, next) ==
    LET formatted == LogMessage(msg) IN
    /\ logs' = Append(logs, formatted)
    /\ IF shape = "stream"
       THEN /\ PutEnabled(logs_queue)
            /\ logs_queue' = Append(logs_queue, [type |-> "log", data |-> formatted])
            /\ puts' = Append(puts, "log")
            /\ IF Extracts(formatted)
               THEN wpc' = "log_callback" /\ wret' = next
               ELSE wpc' = next /\ wret' = wret
       ELSE /\ wpc' = next
            /\ UNCHANGED <<logs_queue, puts, wret>>
    /\ UNCHANGED <<exc, original>>

\* A raise inside or outside the try block of _deploy_with_boto3.
Raise(e, inTry) ==
    /\ exc' = e
    /\ original' = IF original = NoExc THEN e ELSE original
    /\ wpc' = IF inTry /\ e.type = "Exception" THEN "except_Exception"
              ELSE IF shape = "stream" THEN "run_except" ELSE "raised"
    /\ UNCHANGED <<wret, logs, logs_queue, puts>>

Goto(next) ==
    /\ wpc' = next
    /\ UNCHANGED <<wret, logs, logs_queue, puts, exc, original>>

Start(step) == trace' = Append(trace, step)

\* ------------------------------------------------------------------------
\* _deploy_with_boto3: the pipeline
\* ------------------------------------------------------------------------

\* boto3.Session(...) and session.client(...), before the try block.
CreateSession ==
    /\ wpc = "session"
    /\ \/ Goto("log_checking")
       \/ Raise(OtherException(<<"NoRegionError">>), FALSE)
    /\ UNCHANGED <<reqVars, otherVars, localVars, nonlocalVars, consVars>>

\* Step 1: log("Checking AWS prerequisites...")
LogChecking ==
    /\ wpc = "log_checking"
    /\ log(MsgChecking, "get_latest_ami")
    /\ Start("ResolveImage")
    /\ UNCHANGED <<reqVars, otherVars, attempt, requests, created, dns, ssm_status, result, ssm_fault,
                   nonlocalVars, consVars>>

\* _get_latest_ami: the first log line of the branch taken.
get_latest_ami ==
    /\ wpc = "get_latest_ami"
    /\ IF Truthy(req_ami_id)
       THEN log(LogMessage(MsgUsingCustomAmi(req_ami_id)), "ami_describe")
       ELSE IF Contains(Lower(Repository), <<"cpu">>)
            THEN log(LogMessage(MsgFindingCpu), "ami_describe")
            ELSE log(LogMessage(MsgFindingGpu), "ami_describe")
    /\ UNCHANGED <<reqVars, otherVars, localVars, nonlocalVars, consVars>>

\* _get_latest_ami: image lookup and describe_images.
get_latest_ami_describe ==
    /\ wpc = "ami_describe"
    /\ \/ IF Truthy(req_ami_id)
          THEN log(LogMessage(MsgAmiRootDevice(RootDevice)), "ensure_security_group")
          ELSE log(LogMessage(MsgUsingAmi(LatestAmi, RootDevice)), "ensure_security_group")
       \/ IF Truthy(req_ami_id)
          THEN Raise(HTTPException(500, DetailInvalidAmi(req_ami_id, <<"ClientError">>)), TRUE)
          ELSE Raise(HTTPException(500, DetailAmiFailed(<<"ClientError">>)), TRUE)
       \/ Raise(OtherException(<<"IndexError">>), TRUE)
    /\ UNCHANGED <<reqVars, otherVars, localVars, nonlocalVars, consVars>>

\* Step 2: _ensure_security_group
ensure_security_group ==
    /\ wpc = "ensure_security_group"
    /\ Start("EnsureSecurityGroup")
    /\ \/ log(LogMessage(MsgSgExists(SecurityGroupName, SgId)), "launch_ec2_instance")
       \/ log(LogMessage(MsgSgCreated(SgId)), "launch_ec2_instance")
       \/ Raise(HTTPException(500, DetailSgCreateFailed(<<"ClientError">>)), TRUE)
       \/ Raise(OtherException(<<"ClientError">>), TRUE)
    /\ UNCHANGED <<reqVars, otherVars, attempt, requests, created, dns, ssm_status, result, ssm_fault,
                   nonlocalVars, consVars>>

\* Step 3: _launch_ec2_instance, "Launching EC2 instance..."
launch_ec2_instance ==
    /\ wpc = "launch_ec2_instance"
    /\ Start("LaunchInstance")
    /\ log(LogMessage(MsgLaunching), "ensure_iam_role")
    /\ UNCHANGED <<reqVars, otherVars, attempt, requests, created, dns, ssm_status, result, ssm_fault,
                   nonlocalVars, consVars>>

\* _ensure_iam_role: "Checking IAM role: ..."
ensure_iam_role ==
    /\ wpc = "ensure_iam_role"
    /\ log(LogMessage(MsgCheckingRole(RoleName)), "launch_prepare")
    /\ UNCHANGED <<reqVars, otherVars, localVars, nonlocalVars, consVars>>

\* The rest of _ensure_iam_role, get_instance_profile, the region check and
\* the security-group lookup: everything before run_instances.
launch_prepare ==
    /\ wpc = "launch_prepare"
    /\ \/ log(LogMessage(MsgRoleOk(RoleName)), "run_instances")
       \/ Raise(HTTPException(500, DetailRoleFailed(<<"ClientError">>)), TRUE)
    /\ UNCHANGED <<reqVars, otherVars, localVars, nonlocalVars, consVars>>

\* ec2_client.run_instances and "Instance launched: <id>"
run_instances ==
    /\ wpc = "run_instances"
    /\ requests' = Append(requests, "run_instances")
    /\ \/ /\ created' = NewInstance
          /\ log(LogMessage(MsgInstanceLaunched(NewInstance)), "launch_wait_log")
       \/ /\ Raise(HTTPException(500, DetailLaunchFailed(<<"ClientError">>)), TRUE)
          /\ UNCHANGED created
    /\ UNCHANGED <<reqVars, otherVars, attempt, trace, dns, ssm_status, result, ssm_fault,
                   nonlocalVars, consVars>>

launch_wait_log ==
    /\ wpc = "launch_wait_log"
    /\ log(LogMessage(MsgWaitingRunning), "launch_wait")
    /\ UNCHANGED <<reqVars, otherVars, localVars, nonlocalVars, consVars>>

\* The instance_running waiter, describe_instances (twice when the address
\* is empty) and "Instance is running. Public DNS: <dns>"
launch_wait ==
    /\ wpc = "launch_wait"
    /\ \/ \E d \in DnsAnswers(shape) :
            /\ dns' = d
            /\ log(LogMessage(MsgRunning(d)), "wait_for_ssm")
       \/ /\ Raise(OtherException(<<"WaiterError">>), TRUE)
          /\ UNCHANGED dns
       \/ /\ Raise(HTTPException(500, DetailLaunchFailed(<<"ClientError">>)), TRUE)
          /\ UNCHANGED dns
    /\ UNCHANGED <<reqVars, otherVars, attempt, trace, requests, created, ssm_status, result,
                   ssm_fault, nonlocalVars, consVars>>

\* log_callback of event_stream, after its put: extract the instance info.
ParseLast(message) == Last(Split(message))

log_callback ==
    /\ wpc = "log_callback"
    /\ LET message == Last(logs) IN
       IF Contains(message, PatInstanceLaunched)
       THEN /\ instance_id' = IF Len(Split(message)) > 0 THEN ParseLast(message)
                              ELSE instance_id
            /\ UNCHANGED public_dns
       ELSE /\ public_dns' = IF Len(Split(message)) > 0 THEN ParseLast(message)
                             ELSE public_dns
            /\ UNCHANGED instance_id
    /\ Goto(wret)
    /\ UNCHANGED <<reqVars, otherVars, localVars, deployment_done, deployment_error,
                   thread_alive, consVars>>

\* ------------------------------------------------------------------------
\* Step 4: _wait_for_ssm
\* ------------------------------------------------------------------------

\* The statuses _wait_for_ssm takes as "the channel answers".
ReadyOnlyOnSuccess(status) == status = "Success"
SsmReady(status) == status = "Success" \/ status = "Failed"

wait_for_ssm ==
    /\ wpc = "wait_for_ssm"
    /\ Start("AwaitCommandChannelReady")
    /\ attempt' = 0
    /\ log(LogMessage(MsgWaitingSsm(created)), "ssm_attempt")
    /\ UNCHANGED <<reqVars, otherVars, requests, created, dns, ssm_status, result, ssm_fault,
                   nonlocalVars, consVars>>

\* "Log every 3rd attempt", before the probe is sent.
LogsAttempt(n) == n > 0 /\ n % 3 = 0

ssm_attempt_log ==
    /\ wpc = "ssm_attempt"
    /\ attempt < max_retries
    /\ LogsAttempt(attempt)
    /\ log(LogMessage(MsgSsmAttempt(attempt + 1)), "ssm_probe")
    /\ UNCHANGED <<reqVars, otherVars, localVars, nonlocalVars, consVars>>

\* One iteration of the loop: send_command, sleep, get_command_invocation.
\* The loop variable and the provider's answer die with the call.
ssm_probe ==
    /\ \/ wpc = "ssm_probe"
       \/ wpc = "ssm_attempt" /\ attempt < max_retries /\ ~LogsAttempt(attempt)
    /\ \E answer \in {"Success", "Failed"}
                     \cup (IF shape = "sync" THEN SsmFaults ELSE StreamSsmFaults) :
         /\ answer \in {"Success", "Failed"} => (shape = "sync" \/ attempt <= MaxNotReady)
         /\ answer \in SsmFaults => ssm_fault \in {"None", answer}
         /\ IF answer \in {"Success", "Failed", "InProgress"}
            THEN \* the probe was dispatched and its status read
                 /\ ssm_status' = answer
                 /\ IF SsmReady(answer)
                    THEN /\ log(LogMessage(MsgSsmEstablished), "install_docker_on_instance")
                         /\ attempt' = 0
                         /\ ssm_fault' = "None"
                    ELSE /\ Goto("ssm_attempt")
                         /\ attempt' = attempt + 1
                         /\ ssm_fault' = answer
            ELSE \* send_command or get_command_invocation raised
                 /\ ssm_status' = "Error"
                 /\ attempt' = attempt + 1
                 /\ ssm_fault' = answer
                 /\ IF attempt % 3 = 0
                    THEN IF answer = "InvalidInstanceId"
                         THEN log(LogMessage(MsgSsmNotReady(attempt + 1)), "ssm_attempt")
                         ELSE log(LogMessage(MsgSsmAttemptFailed(attempt + 1, <<answer>>)),
                                  "ssm_attempt")
                    ELSE Goto("ssm_attempt")
    /\ UNCHANGED <<reqVars, otherVars, trace, requests, created, dns, result, nonlocalVars, consVars>>

\* "If we get here, all retries failed"
ssm_exhausted ==
    /\ wpc = "ssm_attempt"
    /\ attempt = max_retries
    /\ Raise(HTTPException(500, DetailSsmFailed), TRUE)
    /\ attempt' = 0
    /\ ssm_fault' = "None"
    /\ ssm_status' = "None"
    /\ UNCHANGED <<reqVars, otherVars, trace, requests, created, dns, result, nonlocalVars, consVars>>

\* ------------------------------------------------------------------------
\* _run_ssm_command and the three steps built on it
\* ------------------------------------------------------------------------
ErrStderr == Sp(<<"exit", "status", "1">>)
ErrManifest == Sp(<<"manifest", "unknown">>)
ErrNotFound == Sp(<<"Requested", "image", "not", "found">>)
ErrEmptyRepo == Sp(<<"Error", "response", "from", "daemon">>) \o Colon \o ErrNotFound
ErrDispatch == <<"ThrottlingException">>
OutPartial == Sp(<<"partial", "output">>)

\* What _run_ssm_command can return: (success, output, error), and whether
\* it got there through its except branch, which logs "SSM command failed".
\* stderrs: the error outputs the calling step can meet.
run_ssm_command(stderrs) ==
    { [success |-> TRUE,  output |-> <<"ok">>,   error |-> <<>>,        raised |-> FALSE],
      [success |-> FALSE, output |-> OutPartial, error |-> <<>>,        raised |-> FALSE],
      [success |-> FALSE, output |-> <<>>,       error |-> ErrDispatch, raised |-> TRUE] }
    \cup { [success |-> FALSE, output |-> <<>>, error |-> e, raised |-> FALSE] :
           e \in stderrs }

\* Python `error or output`
ErrorOrOutput(r) == IF r.error # <<>> THEN r.error ELSE r.output

InstallFailure(m) == HTTPException(500, DetailDockerFailed(m))
ConfigureFailure(m) == HTTPException(500, DetailAwsConfigFailed(m))
GenericPullFailure(m) == HTTPException(500, DetailContainerFailed(m))
PullFailure(m) ==
    IF Contains(m, ErrManifest) \/ Contains(m, ErrNotFound)
    THEN HTTPException(404, DetailImageNotFound(Repository, m))
    ELSE HTTPException(500, DetailContainerFailed(m))

\* The exception a step raises for the message m of its failed command.
StepFailure(step, m) ==
    CASE step = "InstallRuntime" -> InstallFailure(m)
      [] step = "ConfigureCredentials" -> ConfigureFailure(m)
      [] step = "PullAndStartWorkload" -> PullFailure(m)

\* Step 6 runs only with session credentials.
AlwaysConfigure(creds) == TRUE
NeedsConfigure(creds) == creds

\* The command of a step: run it, then raise on failure or log completion.
RunStep(here, failed, stderrs, step, doneMsg, next) ==
    /\ wpc = here
    /\ requests' = Append(requests, step)
    /\ \E r \in run_ssm_command(stderrs) :
         /\ result' = IF r.raised THEN r ELSE NoResult
         /\ IF r.raised
            THEN log(LogMessage(MsgSsmCommandFailed(r.error)), failed)
            ELSE IF ~r.success
            THEN Raise(StepFailure(step, ErrorOrOutput(r)), TRUE)
            ELSE log(LogMessage(doneMsg), next)
    /\ UNCHANGED <<reqVars, otherVars, attempt, trace, created, dns, ssm_status, ssm_fault,
                   nonlocalVars, consVars>>

\* A step that sends its command again after a failed dispatch.
RetryStep(here, step) ==
    /\ wpc = here
    /\ wpc' = IF step = "InstallRuntime" THEN "install_run"
              ELSE IF step = "ConfigureCredentials" THEN "configure_run"
              ELSE "pull_run"
    /\ result' = NoResult
    /\ UNCHANGED <<reqVars, otherVars, wret, exc, original, logs, logs_queue, puts,
                   attempt, trace, requests, created, dns, ssm_status, ssm_fault,
                   nonlocalVars, consVars>>

\* The raise of a step whose command ended in _run_ssm_command's except.
FailStep(here, step) ==
    /\ wpc = here
    /\ Raise(StepFailure(step, ErrorOrOutput(result)), TRUE)
    /\ result' = NoResult
    /\ UNCHANGED <<reqVars, otherVars, attempt, trace, requests, created, dns, ssm_status, ssm_fault,
                   nonlocalVars, consVars>>

\* Step 5: _install_docker_on_instance
install_docker_on_instance ==
    /\ wpc = "install_docker_on_instance"
    /\ Start("InstallRuntime")
    /\ log(LogMessage(MsgInstalling), "install_run")
    /\ ssm_status' = "None"
    /\ UNCHANGED <<reqVars, otherVars, attempt, requests, created, dns, result, ssm_fault,
                   nonlocalVars, consVars>>

install_docker_run ==
    RunStep("install_run", "install_failed", {ErrStderr}, "InstallRuntime", MsgDockerCompleted,
            IF NeedsConfigure(session_creds) THEN "configure_aws_on_instance"
            ELSE "pull_and_run_container")

install_docker_failed == FailStep("install_failed", "InstallRuntime")

\* Step 6: _configure_aws_on_instance
configure_aws_on_instance ==
    /\ wpc = "configure_aws_on_instance"
    /\ Start("ConfigureCredentials")
    /\ log(LogMessage(MsgConfiguring), "configure_run")
    /\ UNCHANGED <<reqVars, otherVars, attempt, requests, created, dns, ssm_status, result, ssm_fault,
                   nonlocalVars, consVars>>

configure_aws_run ==
    RunStep("configure_run", "configure_failed", {}, "ConfigureCredentials", MsgConfigured,
            "pull_and_run_container")

configure_aws_failed == FailStep("configure_failed", "ConfigureCredentials")

\* Step 7: _pull_and_run_container
\* What docker leaves on stderr: an empty repository, in either wording, or
\* any other failure.
PullStderrs == {ErrManifest, ErrEmptyRepo, ErrStderr}

pull_and_run_container ==
    /\ wpc = "pull_and_run_container"
    /\ Start("PullAndStartWorkload")
    /\ log(LogMessage(MsgPulling(Repository)), "pull_run")
    /\ UNCHANGED <<reqVars, otherVars, attempt, requests, created, dns, ssm_status, result, ssm_fault,
                   nonlocalVars, consVars>>

pull_run ==
    RunStep("pull_run", "pull_failed", PullStderrs, "PullAndStartWorkload", MsgContainerCompleted,
            "log_completed")

pull_failed == FailStep("pull_failed", "PullAndStartWorkload")

\* log("Deployment completed successfully!")
log_completed ==
    /\ wpc = "log_completed"
    /\ Start("Done")
    /\ log(MsgDeploymentCompleted, "return")
    /\ UNCHANGED <<reqVars, otherVars, attempt, requests, created, dns, ssm_status, result, ssm_fault,
                   nonlocalVars, consVars>>

\* except Exception as e: log the error and raise HTTPException(500, ...)
except_Exception ==
    /\ wpc = "except_Exception"
    /\ logs' = Append(logs, LogMessage(MsgError(exc.detail)))
    /\ IF shape = "stream"
       THEN /\ PutEnabled(logs_queue)
            /\ logs_queue' = Append(logs_queue,
                 [type |-> "log", data |-> LogMessage(MsgError(exc.detail))])
            /\ puts' = Append(puts, "log")
            /\ wpc' = "run_except"
       ELSE /\ wpc' = "raised"
            /\ UNCHANGED <<logs_queue, puts>>
    /\ exc' = HTTPException(500, DetailDeploymentFailed(exc.detail))
    /\ UNCHANGED <<reqVars, otherVars, wret, original, localVars, nonlocalVars, consVars>>

\* ------------------------------------------------------------------------
\* The end of the run: deploy() returns or raises, run_deployment reports
\* ------------------------------------------------------------------------

\* _deploy_with_boto3 returns its result; run_deployment copies the instance
\* info out of it.
deploy_return ==
    /\ wpc = "return"
    /\ IF shape = "stream"
       THEN /\ instance_id' = created
            /\ public_dns' = dns
            /\ Goto("put_complete")
       ELSE /\ Goto("returned")
            /\ UNCHANGED <<instance_id, public_dns>>
    /\ UNCHANGED <<reqVars, otherVars, localVars, deployment_done, deployment_error,
                   thread_alive, consVars>>

\* (as if the event carried the address where the id belongs)
AddressAsId(id, d, t) == [id |-> d, publicDns |-> d, instanceType |-> t]
CompleteData(id, d, t) == [id |-> id, publicDns |-> d, instanceType |-> t]

put_complete ==
    /\ wpc = "put_complete"
    /\ PutEnabled(logs_queue)
    /\ logs_queue' = Append(logs_queue,
         [type |-> "complete", data |-> CompleteData(instance_id, public_dns, InstanceType)])
    /\ puts' = Append(puts, "complete")
    /\ wpc' = "finally"
    /\ UNCHANGED <<reqVars, otherVars, wret, exc, original, logs, localVars, nonlocalVars,
                   consVars>>

\* except HTTPException as e / except Exception as e: deployment_error = e
run_except ==
    /\ wpc = "run_except"
    /\ deployment_error' = exc
    /\ Goto("put_error")
    /\ UNCHANGED <<reqVars, otherVars, localVars, instance_id, public_dns, deployment_done,
                   thread_alive, consVars>>

\* str(e.detail) for an HTTPException, "Deployment failed: <e>" otherwise
ErrorText(e) ==
    IF e.type = "HTTPException" THEN e.detail ELSE DetailDeploymentFailed(e.detail)

\* (as if only the HTTPException clause reported the error)
put_error_http_only ==
    /\ wpc = "put_error"
    /\ IF deployment_error.type = "HTTPException"
       THEN /\ logs_queue' = Append(logs_queue,
                  [type |-> "error", data |-> ErrorText(deployment_error)])
            /\ puts' = Append(puts, "error")
       ELSE UNCHANGED <<logs_queue, puts>>
    /\ wpc' = "finally"
    /\ UNCHANGED <<reqVars, otherVars, wret, exc, original, logs, localVars, nonlocalVars,
                   consVars>>

put_error ==
    /\ wpc = "put_error"
    /\ PutEnabled(logs_queue)
    /\ logs_queue' = Append(logs_queue,
         [type |-> "error", data |-> ErrorText(deployment_error)])
    /\ puts' = Append(puts, "error")
    /\ wpc' = "finally"
    /\ UNCHANGED <<reqVars, otherVars, wret, exc, original, logs, localVars, nonlocalVars,
                   consVars>>

\* finally: deployment_done = True
finally_done ==
    /\ wpc = "finally"
    /\ deployment_done' = TRUE
    /\ Goto("put_sentinel")
    /\ UNCHANGED <<reqVars, otherVars, localVars, instance_id, public_dns, deployment_error,
                   thread_alive, consVars>>

\* finally: logs_queue.put(None)
put_sentinel ==
    /\ wpc = "put_sentinel"
    /\ PutEnabled(logs_queue)
    /\ logs_queue' = Append(logs_queue, [type |-> "sentinel", data |-> <<>>])
    /\ puts' = Append(puts, "sentinel")
    /\ wpc' = "thread_exit"
    /\ UNCHANGED <<reqVars, otherVars, wret, exc, original, logs, localVars, nonlocalVars,
                   consVars>>

\* run_deployment returns: the thread is no longer alive.
thread_exit ==
    /\ wpc = "thread_exit"
    /\ thread_alive' = FALSE
    /\ Goto("exited")
    /\ UNCHANGED <<reqVars, otherVars, localVars, instance_id, public_dns, deployment_done,
                   deployment_error, consVars>>

\* ------------------------------------------------------------------------
\* event_stream: the consumer generator
\* ------------------------------------------------------------------------
workerVars == <<wpc, wret, attempt, exc, original, logs, trace, requests, created, dns,
                ssm_status, result, ssm_fault, puts, instance_id, public_dns,
                deployment_done, deployment_error, thread_alive>>

\* yield _sse(event, data): the client receives it if it is still there.
Yield(event, data) ==
    emitted' = IF connected THEN Append(emitted, [event |-> event, data |-> data])
               ELSE emitted

\* item = logs_queue.get(timeout=1) returned an item
queue_get ==
    /\ cpc = "get"
    /\ logs_queue # <<>>
    /\ item' = Head(logs_queue)
    /\ logs_queue' = Tail(logs_queue)
    /\ LET it == Head(logs_queue) IN
       IF it.type = "sentinel"
       THEN cpc' = "finally" /\ UNCHANGED emitted
       ELSE /\ Yield(it.type, it.data)
            /\ cpc' = IF it.type = "log" THEN "yield_log"
                      ELSE IF it.type = "complete" THEN "yield_complete"
                      ELSE "yield_error"
    /\ UNCHANGED <<reqVars, otherVars, workerVars, connected, timeouts, terminate_calls>>

\* logs_queue.get(timeout=1) raised queue.Empty
queue_empty ==
    /\ cpc = "get"
    /\ logs_queue = <<>>
    /\ cpc' = "empty"
    /\ timeouts' = IF connected \/ timeouts = MaxTimeouts THEN timeouts
                   ELSE timeouts + 1
    /\ UNCHANGED <<reqVars, otherVars, workerVars, logs_queue, item, connected, emitted,
                   terminate_calls>>

\* if not deploy_thread.is_alive() and deployment_done: ... else: continue
check_alive ==
    /\ cpc = "empty"
    /\ cpc' = IF ~thread_alive /\ deployment_done THEN "fallback_get" ELSE "get"
    /\ UNCHANGED <<reqVars, otherVars, workerVars, logs_queue, item, connected, emitted,
                   timeouts, terminate_calls>>

\* The branch taken once the thread is gone: one more get(timeout=0.5), a
\* complete/error item is relayed, anything else is not; then break.
fallback_get ==
    /\ cpc = "fallback_get"
    /\ IF logs_queue # <<>>
       THEN LET it == Head(logs_queue) IN
            /\ item' = it
            /\ logs_queue' = Tail(logs_queue)
            /\ IF it.type \in {"complete", "error"}
               THEN Yield(it.type, it.data) /\ cpc' = "yield_fallback"
               ELSE UNCHANGED emitted /\ cpc' = "finally"
       ELSE /\ UNCHANGED <<item, logs_queue>>
            /\ IF Truthy(instance_id)
               THEN /\ Yield("complete",
                             CompleteData(instance_id,
                                          IF Truthy(public_dns) THEN public_dns ELSE <<>>,
                                          InstanceType))
                    /\ cpc' = "yield_fallback"
               ELSE UNCHANGED emitted /\ cpc' = "finally"
    /\ UNCHANGED <<reqVars, otherVars, workerVars, connected, timeouts, terminate_calls>>

\* The generator is resumed after yield _sse("log", data): milestone loop.
resume_log ==
    /\ cpc = "yield_log"
    /\ connected
    /\ LET k == FirstMilestone(item.data) IN
       IF k > 0
       THEN Yield("progress", AwsMilestones[k][2]) /\ cpc' = "yield_progress"
       ELSE UNCHANGED emitted /\ cpc' = "get"
    /\ UNCHANGED <<reqVars, otherVars, workerVars, logs_queue, item, connected, timeouts,
                   terminate_calls>>

\* Resumed after yield _sse("progress", pct): break out of the milestone loop.
resume_progress ==
    /\ cpc = "yield_progress"
    /\ connected
    /\ cpc' = "get"
    /\ UNCHANGED <<reqVars, otherVars, workerVars, logs_queue, item, connected, emitted,
                   timeouts, terminate_calls>>

\* finally: terminate the instance if the deployment failed and an instance
\* was created; an exception of terminate_instances is swallowed.
CleanupIgnoresError(err, id) == Truthy(id)
NeedsCleanup(err, id) == err # NoExc /\ Truthy(id)

Finally ==
    /\ IF NeedsCleanup(deployment_error, instance_id)
       THEN \E raised \in BOOLEAN :
              terminate_calls' = Append(terminate_calls,
                                        [id |-> instance_id, raised |-> raised])
       ELSE UNCHANGED terminate_calls
    /\ cpc' = "closed"
    \* the generator's frame is gone
    /\ item' = NoItem
    /\ timeouts' = 0

\* The finally block after a break that followed a queue operation.
cleanup ==
    /\ cpc = "finally"
    /\ Finally
    /\ UNCHANGED <<reqVars, otherVars, workerVars, logs_queue, connected, emitted>>

\* Resumed after a terminal event: (sleep and) break, then the finally block.
resume_terminal ==
    /\ cpc \in {"yield_complete", "yield_error", "yield_fallback"}
    /\ connected
    /\ Finally
    /\ UNCHANGED <<reqVars, otherVars, workerVars, logs_queue, connected, emitted>>

\* except GeneratorExit: the generator is closed at the yield it is suspended
\* at (the loop has no other place where it notices that the client is
\* gone), then the finally block.
AtYield == cpc \in {"yield_log", "yield_progress", "yield_complete",
                    "yield_error", "yield_fallback"}

generator_exit ==
    /\ AtYield
    /\ ~connected
    /\ Finally
    /\ UNCHANGED <<reqVars, otherVars, workerVars, logs_queue, connected, emitted>>

\* The client goes away.
disconnect ==
    /\ connected
    /\ cpc \notin {"none", "closed"}
    /\ connected' = FALSE
    /\ UNCHANGED <<reqVars, otherVars, workerVars, logs_queue, cpc, item, emitted, timeouts,
                   terminate_calls>>

\* ------------------------------------------------------------------------
\* Specification
\* ------------------------------------------------------------------------
Worker ==
    \/ CreateSession \/ LogChecking \/ get_latest_ami \/ get_latest_ami_describe
    \/ ensure_security_group \/ launch_ec2_instance \/ ensure_iam_role
    \/ launch_prepare \/ run_instances \/ launch_wait_log \/ launch_wait
    \/ log_callback \/ wait_for_ssm \/ ssm_attempt_log \/ ssm_probe
    \/ ssm_exhausted \/ install_docker_on_instance \/ install_docker_run
    \/ install_docker_failed \/ configure_aws_on_instance \/ configure_aws_run
    \/ configure_aws_failed \/ pull_and_run_container \/ pull_run \/ pull_failed
    \/ log_completed \/ except_Exception \/ deploy_return \/ put_complete
    \/ run_except \/ put_error \/ finally_done \/ put_sentinel \/ thread_exit

Consumer ==
    \/ queue_get \/ queue_empty \/ check_alive \/ fallback_get \/ resume_log
    \/ resume_progress \/ resume_terminal \/ generator_exit \/ cleanup

Next == Worker \/ Consumer \/ disconnect

Spec == Init /\ [][Next]_vars

\* The threads are scheduled fairly: neither the worker nor the consumer is
\* starved while it has a step to take.
FairSpec == Spec /\ WF_vars(Worker) /\ WF_vars(Consumer)

\* ------------------------------------------------------------------------
\* Properties
\* ------------------------------------------------------------------------
IsTerminal(e) == e.event \in {"complete", "error"}
IsLog(e) == e.event = "log"
IsError(e) == e.event = "error"

TerminalEvents == SelectSeq(emitted, IsTerminal)
LogEvents == SelectSeq(emitted, IsLog)
ErrorEvents == SelectSeq(emitted, IsError)

\* The stream is over and the client was there to the end.
StreamServed == shape = "stream" /\ cpc = "closed" /\ connected

Started(step) == \E i \in DOMAIN trace : trace[i] = step

\* C1: a streaming deployment whose client stays connected ends with exactly
\* one terminal event (complete or error); never two, and no event after it.
C1_ExactlyOneTerminalEvent ==
    /\ Len(TerminalEvents) <= 1
    /\ Len(TerminalEvents) = 1 => IsTerminal(Last(emitted))
    /\ StreamServed => Len(TerminalEvents) = 1

\* C2: every log line the worker enqueued reaches the connected client as a
\* log event, exactly once and in emission order, before the stream closes.
C2_EveryLogLineEmitted ==
    /\ shape = "stream" =>
         /\ Len(LogEvents) <= Len(logs)
         /\ \A i \in DOMAIN LogEvents : LogEvents[i].data = logs[i]
    /\ StreamServed => Len(LogEvents) = Len(logs)

\* C3: in a streaming deployment whose client stays connected, a failure of a
\* step after instance creation leads to exactly one terminate_instances call
\* for that instance, and the stream ends with an error event carrying the
\* message of the original failure, whatever terminate_instances answers.
C3_StreamFailureTerminatesOnceAndReports ==
    (StreamServed /\ Truthy(created) /\ Started("AwaitCommandChannelReady")
                  /\ original # NoExc)
    => /\ Len(terminate_calls) = 1
       /\ terminate_calls[1].id = created
       /\ Len(ErrorEvents) = 1
       /\ IsError(Last(emitted))
       /\ Contains(Last(emitted).data, original.detail)

\* C4: in the synchronous shape, a failure after instance creation leads to
\* exactly one termination call for the instance, and the caller gets the
\* original error.
C4_SyncFailureTerminatesOnce ==
    (shape = "sync" /\ wpc = "raised" /\ Truthy(created)
                   /\ Started("AwaitCommandChannelReady"))
    => /\ Len(terminate_calls) = 1
       /\ terminate_calls[1].id = created
       /\ Contains(exc.detail, original.detail)

\* C5: the steps of one run start strictly in pipeline order, each only while
\* no step has failed, and ConfigureCredentials is part of the order iff
\* session credentials were supplied.
PipelineOrder(creds) ==
    <<"ResolveImage", "EnsureSecurityGroup", "LaunchInstance",
      "AwaitCommandChannelReady", "InstallRuntime">>
    \o (IF creds THEN <<"ConfigureCredentials">> ELSE <<>>)
    \o <<"PullAndStartWorkload", "Done">>

C5_StepsStrictlySequential ==
    [][trace' # trace =>
         /\ original = NoExc
         /\ Len(trace) < Len(PipelineOrder(session_creds))
         /\ trace' = Append(trace, PipelineOrder(session_creds)[Len(trace) + 1])]_vars

C5_Witness == ~session_creds /\ wpc = "returned" /\ Last(trace) = "Done"

\* C6: after the client of a streaming deployment went away, the consumer
\* stops and the worker still runs to its end, having completed the pipeline
\* or failed; none of its puts waits for the consumer.
C6_DisconnectDoesNotStopWorker ==
    (shape = "stream" /\ ~connected)
    ~> (/\ cpc = "closed"
        /\ wpc = "exited"
        /\ (original # NoExc \/ Started("Done")))

C6_Witness ==
    /\ ~connected /\ cpc = "closed" /\ wpc = "exited"
    /\ Len(emitted) < Len(puts) - 2

\* C7: after the client went away the consumer loop returns within one
\* polling interval: it does not finish a second queue wait.
C7_ReturnsWithinOnePollingInterval == timeouts < 2

\* C8: on every exit path the worker enqueues exactly one terminal event and
\* then exactly one sentinel; only log lines precede the terminal event and
\* nothing follows the sentinel.
IsTerminalPut(t) == t \in {"complete", "error"}
IsSentinelPut(t) == t = "sentinel"

C8_TerminalThenSentinel ==
    LET n == Len(puts)
        terminals == Len(SelectSeq(puts, IsTerminalPut))
        sentinels == Len(SelectSeq(puts, IsSentinelPut))
    IN /\ terminals <= 1 /\ sentinels <= 1
       /\ terminals = 1 /\ sentinels = 0 => IsTerminalPut(puts[n])
       /\ sentinels = 1 => n >= 2 /\ puts[n] = "sentinel" /\ IsTerminalPut(puts[n - 1])
       /\ wpc \in {"thread_exit", "exited"} => terminals = 1 /\ sentinels = 1

C8_Witness ==
    wpc = "exited" /\ original.type = "Exception" /\ ~Started("ResolveImage")

\* C9: terminate_instances is called only for the instance this run created
\* and only once the run has failed.
C9_TerminateOnlyOwnInstanceAfterFailure ==
    \A i \in DOMAIN terminate_calls :
        /\ Truthy(created)
        /\ terminate_calls[i].id = created
        /\ original # NoExc

C9_Witness ==
    /\ cpc = "closed" /\ Len(terminate_calls) = 1
    /\ terminate_calls[1].id = NewInstance

\* C10: a readiness probe that was dispatched and ended with status Failed
\* (or Success) makes _wait_for_ssm return normally; the next step is
\* InstallRuntime.
C10_FailedProbeMeansReady ==
    ssm_status \in {"Success", "Failed"}
    => /\ wpc = "install_docker_on_instance"
       /\ exc = NoExc
       /\ Last(trace) = "AwaitCommandChannelReady"

C10_Witness ==
    /\ ssm_status = "Failed"
    /\ wpc = "install_docker_on_instance"
    /\ Last(logs) = LogMessage(LogMessage(MsgSsmEstablished))

\* C36: every complete event the client receives was emitted after
\* _deploy_with_boto3 returned without an error (all steps done, no
\* exception recorded), and it carries the id run_instances returned to that
\* run; no complete event, synthesised or relayed, exists for a run that
\* failed or is still going.
RunReturned ==
    /\ wpc \in {"finally", "put_sentinel", "thread_exit", "exited"}
    /\ Last(trace) = "Done"
    /\ original = NoExc
    /\ deployment_error = NoExc

C36_CompleteOnlyAfterSuccess ==
    \A i \in 1..Len(emitted) :
        emitted[i].event = "complete"
        => /\ RunReturned
           /\ created # NoneVal
           /\ emitted[i].data.id = created

C36_Witness ==
    /\ cpc = "closed"
    /\ Len(emitted) > 0
    /\ Last(emitted).event = "complete"
    /\ Last(emitted).data.id = NewInstance

\* The percentages of the progress events the client received, in order.
IsProgress(e) == e.event = "progress"
ProgressEvents == SelectSeq(emitted, IsProgress)

\* C38: along a streaming deployment the percentages of the progress events
\* never decrease: no progress event carries a smaller percentage than an
\* earlier one, up to and including the run's success.
C38_ProgressNonDecreasing ==
    \A i, j \in 1..Len(ProgressEvents) :
        i < j => ProgressEvents[i].data <= ProgressEvents[j].data

C38_Witness ==
    /\ cpc = "closed"
    /\ Len(emitted) > 0
    /\ Last(emitted).event = "complete"
    /\ Len(ProgressEvents) >= 8
    /\ ProgressEvents[1].data = 15
    /\ Last(ProgressEvents).data = 100

\* C39: no deployment starts without a valid session: a pipeline step is
\* started, a log line written or a provider request submitted only for a
\* request that came with the credentials of a valid session.
C39_NoDeploymentWithoutSession ==
    (trace # <<>> \/ requests # <<>> \/ logs # <<>>) => session_creds

\* POST /api/deploy without X-Session-ID created an instance.
DeployedWithoutSession ==
    /\ shape = "sync"
    /\ ~session_creds
    /\ created # NoneVal

\* ------------------------------------------------------------------------
\* _run_ssm_command: one call against a provider that may answer anything
\* ------------------------------------------------------------------------
DefaultTimeout == 300
LongTimeout == 600
PollInterval == 10

ClientError(text) == [type |-> "ClientError", status |-> 0, detail |-> text]
MsgCommandTimedOut == Sp(<<"Command", "timed", "out">>)
ErrKey == <<"'Status'">>

\* What send_command and get_command_invocation can raise: a ClientError, a
\* connection error of botocore, a KeyError of the response lookups.
CmdFaults == {ClientError(ErrDispatch), OtherException(Sp(<<"Could", "not", "connect">>)),
              OtherException(ErrKey)}

FinalStatuses == {"Success", "Failed", "Cancelled", "TimedOut"}
PendingStatuses == {"Pending", "InProgress"}

\* StandardOutputContent / StandardErrorContent of an invocation.
CmdOutputs(status) == IF status = "Success" THEN {<<"ok">>} ELSE {<<>>, OutPartial}
CmdErrors(status) == IF status = "Success" THEN {<<>>} ELSE {<<>>, ErrStderr}

\* The timeouts the three steps pass (the default and timeout=600).
CmdInit ==
    /\ UnitIdle
    /\ DeployIdle
    /\ SgIdle
    /\ aws_sessions = EmptyStore
    /\ VerifyIdle
    /\ ReadIdle
    /\ cmd_pc = "send_command"
    /\ cmd_timeout \in {DefaultTimeout, LongTimeout}
    /\ cmd_cb \in BOOLEAN
    /\ cmd_i = 0
    /\ cmd_ret = NoReturn
    /\ cmd_exc = NoExc
    /\ cmd_fault = NoExc
    /\ cmd_cause = "none"
    /\ cmd_logs = <<>>
    /\ cmd_sent = 0
    /\ cmd_polls = 0

\* except Exception as e
CatchesClientErrorOnly(e) == e.type = "ClientError"
CmdCatches(e) == TRUE

\* An exception e raised inside the try block, for the reason given.
CmdExcept(e, cause) ==
    /\ cmd_fault' = e
    /\ cmd_cause' = cause
    /\ IF CmdCatches(e)
       THEN /\ cmd_logs' = IF cmd_cb
                           THEN Append(cmd_logs, LogMessage(MsgSsmCommandFailed(e.detail)))
                           ELSE cmd_logs
            /\ cmd_ret' = [success |-> FALSE, output |-> <<>>, error |-> e.detail]
            /\ cmd_pc' = "returned"
            /\ UNCHANGED cmd_exc
       ELSE /\ cmd_exc' = e
            /\ cmd_pc' = "raised"
            /\ UNCHANGED <<cmd_logs, cmd_ret>>

\* for _ in range(timeout // 10)
PollLimitCeil(timeout) == (timeout + PollInterval - 1) \div PollInterval + 1
PollLimit(timeout) == timeout \div PollInterval

\* response = ssm_client.send_command(...); command_id = ...
cmd_send_command ==
    /\ cmd_pc = "send_command"
    /\ cmd_sent' = cmd_sent + 1
    /\ UNCHANGED cmd_polls
    /\ \/ /\ cmd_pc' = "poll"
          /\ UNCHANGED <<cmd_ret, cmd_exc, cmd_fault, cmd_cause, cmd_logs>>
       \/ \E e \in CmdFaults : CmdExcept(e, "dispatch")
    /\ UNCHANGED <<deployVars, unitVars, sgVars, aws_sessions, verifyVars, readVars, cmd_timeout, cmd_cb, cmd_i>>

\* One iteration of the polling loop: sleep, get_command_invocation, status.
cmd_poll ==
    /\ cmd_pc = "poll"
    /\ cmd_i < PollLimit(cmd_timeout)
    /\ cmd_polls' = cmd_polls + 1
    /\ UNCHANGED cmd_sent
    /\ \/ \E e \in CmdFaults : CmdExcept(e, "poll") /\ UNCHANGED cmd_i
       \/ \E status \in FinalStatuses :
          \E output \in CmdOutputs(status), error \in CmdErrors(status) :
            /\ cmd_ret' = [success |-> (status = "Success"), output |-> output,
                           error |-> error]
            /\ cmd_cause' = status
            /\ cmd_pc' = "returned"
            /\ UNCHANGED <<cmd_i, cmd_exc, cmd_fault, cmd_logs>>
       \/ \E status \in PendingStatuses :
            /\ cmd_i' = cmd_i + 1
            /\ UNCHANGED <<cmd_pc, cmd_ret, cmd_exc, cmd_fault, cmd_cause, cmd_logs>>
    /\ UNCHANGED <<deployVars, unitVars, sgVars, aws_sessions, verifyVars, readVars, cmd_timeout, cmd_cb>>

\* The loop ends without a terminal status: return (False, '', 'Command timed out')
cmd_timed_out ==
    /\ cmd_pc = "poll"
    /\ cmd_i = PollLimit(cmd_timeout)
    /\ cmd_ret' = [success |-> FALSE, output |-> <<>>, error |-> MsgCommandTimedOut]
    /\ cmd_cause' = "timeout"
    /\ cmd_pc' = "returned"
    /\ UNCHANGED <<deployVars, unitVars, sgVars, aws_sessions, verifyVars, readVars, cmd_timeout, cmd_cb, cmd_i, cmd_exc, cmd_fault, cmd_logs, cmd_sent, cmd_polls>>

CmdNext == cmd_send_command \/ cmd_poll \/ cmd_timed_out

CmdSpec == CmdInit /\ [][CmdNext]_vars

\* C11: _run_ssm_command never raises; a dispatch error, an error during a
\* status poll and the timeout elapsing each return a failed result with a
\* descriptive message, 'Command timed out' on timeout and the text of the
\* exception otherwise.
C11_CommandChannelNeverRaises ==
    /\ cmd_pc # "raised"
    /\ cmd_exc = NoExc
    /\ (cmd_pc = "returned" /\ cmd_cause \in {"dispatch", "poll", "timeout"})
       => /\ ~cmd_ret.success
          /\ cmd_ret.error # <<>>
          /\ cmd_cause = "timeout" => cmd_ret.error = MsgCommandTimedOut
          /\ cmd_cause # "timeout" => cmd_ret.error = cmd_fault.detail
    /\ cmd_fault # NoExc => cmd_pc = "returned"

C11_Witness ==
    /\ cmd_pc = "returned"
    /\ cmd_cause = "poll"
    /\ cmd_i > 0
    /\ cmd_fault = OtherException(ErrKey)


\* ------------------------------------------------------------------------
\* _run_ssm_command: dispatch, polling and the result
\* ------------------------------------------------------------------------
\* The call ended on an answer of the polling loop, not on an exception.
EndedByPolling == cmd_pc = "returned" /\ cmd_fault = NoExc

\* C32: _run_ssm_command dispatches the command exactly once and makes at most
\* timeout // 10 status polls; when no provider call raises, it returns only
\* on a terminal status (Success, Failed, Cancelled, TimedOut) or after all
\* timeout // 10 polls, and success is true iff the terminal status observed
\* is Success. When a provider call raises, it returns a failed result at
\* once, whatever polls remain.
C32_DispatchOncePollUntilTerminal ==
    /\ cmd_sent <= 1
    /\ cmd_pc # "send_command" => cmd_sent = 1
    /\ cmd_polls <= cmd_timeout \div 10
    /\ EndedByPolling
       => \/ cmd_cause \in {"Success", "Failed", "Cancelled", "TimedOut"}
          \/ cmd_cause = "timeout" /\ cmd_polls = cmd_timeout \div 10
    /\ cmd_pc = "returned" => (cmd_ret.success <=> cmd_cause = "Success")
    /\ (cmd_pc = "returned" /\ cmd_fault # NoExc)
       => ~cmd_ret.success /\ cmd_cause \in {"dispatch", "poll"}

C32_Witness ==
    /\ EndedByPolling
    /\ cmd_cause = "Cancelled"
    /\ cmd_polls = cmd_timeout \div 10
    /\ cmd_sent = 1
    /\ ~cmd_ret.success

\* C32 as stated: no result is returned while the status is non-terminal and
\* polls remain.
C32_NeverReturnsWhilePollsRemain ==
    cmd_pc = "returned"
    => \/ cmd_cause \in {"Success", "Failed", "Cancelled", "TimedOut"}
       \/ cmd_polls = cmd_timeout \div 10

\* ------------------------------------------------------------------------
\* _ensure_security_group: two deployments of one account, each calling it
\* up to MaxCalls times, against one provider
\* ------------------------------------------------------------------------
MaxCalls == 2
MaxForeign == 1

SgIds == <<SgId, <<"sg-2">>, <<"sg-3">>>>
ErrDuplicate == <<"InvalidGroup.Duplicate">>
ErrLimit == <<"SecurityGroupLimitExceeded">>
ErrUnauthorized == <<"UnauthorizedOperation">>

SgInit ==
    /\ UnitIdle
    /\ DeployIdle
    /\ CmdIdle
    /\ aws_sessions = EmptyStore
    /\ VerifyIdle
    /\ ReadIdle
    /\ sg_group \in {NoneVal, SgId}
    /\ sg_made = IF sg_group = NoneVal THEN 0 ELSE 1
    /\ sg_foreign = 0
    /\ sg_denied \in BOOLEAN
    /\ sg_pc = [p \in Callers |-> "describe"]
    /\ sg_cur = [p \in Callers |-> NoCall]
    /\ sg_hist = [p \in Callers |-> <<>>]

\* The call of caller p ends, returning ret or raising e.
SgEnd(p, probe, creates, ret, e) ==
    /\ sg_hist' = [sg_hist EXCEPT ![p] =
                     Append(@, [probe |-> probe, creates |-> creates, ret |-> ret,
                                exc |-> e, foreign |-> sg_foreign])]
    /\ sg_cur' = [sg_cur EXCEPT ![p] = NoCall]
    /\ sg_pc' = [sg_pc EXCEPT ![p] = IF e = NoExc THEN "returned" ELSE "raised"]

\* describe_security_groups(GroupNames=[name]) answered with the group
GroupNeverFound(g) == FALSE
GroupFound(g) == g # NoneVal

\* try: describe_security_groups ... except ClientError: NotFound or re-raise
sg_describe(p) ==
    /\ sg_pc[p] = "describe"
    /\ IF sg_denied
       THEN SgEnd(p, "denied", 0, NoneVal, ClientError(ErrUnauthorized))
       ELSE IF GroupFound(sg_group)
       THEN SgEnd(p, "found", 0, sg_group, NoExc)
       ELSE /\ sg_cur' = [sg_cur EXCEPT ![p] = [probe |-> "notfound", creates |-> 0]]
            /\ sg_pc' = [sg_pc EXCEPT ![p] = "create"]
            /\ UNCHANGED sg_hist
    /\ UNCHANGED <<deployVars, unitVars, cmdVars, aws_sessions, verifyVars, readVars, sg_group, sg_made, sg_foreign, sg_denied>>

\* create_security_group(GroupName=name, ...): the provider refuses a name
\* that exists (InvalidGroup.Duplicate) and may refuse for its own reasons.
sg_create(p) ==
    /\ sg_pc[p] = "create"
    /\ IF sg_group # NoneVal
       THEN /\ SgEnd(p, "notfound", 1, NoneVal,
                     HTTPException(500, DetailSgCreateFailed(ErrDuplicate)))
            /\ UNCHANGED <<sg_group, sg_made>>
       ELSE \/ /\ sg_group' = SgIds[sg_made + 1]
               /\ sg_made' = sg_made + 1
               /\ SgEnd(p, "notfound", 1, SgIds[sg_made + 1], NoExc)
            \/ /\ SgEnd(p, "notfound", 1, NoneVal,
                        HTTPException(500, DetailSgCreateFailed(ErrLimit)))
               /\ UNCHANGED <<sg_group, sg_made>>
    /\ UNCHANGED <<deployVars, unitVars, cmdVars, aws_sessions, verifyVars, readVars, sg_foreign, sg_denied>>

\* The same caller calls again with the same arguments.
sg_call_again(p) ==
    /\ sg_pc[p] \in {"returned", "raised"}
    /\ Len(sg_hist[p]) < MaxCalls
    /\ sg_pc' = [sg_pc EXCEPT ![p] = "describe"]
    /\ UNCHANGED <<deployVars, unitVars, cmdVars, aws_sessions, verifyVars, readVars, sg_group, sg_made, sg_foreign, sg_denied,
                   sg_cur, sg_hist>>

\* Somebody else deletes the group.
sg_foreign_delete ==
    /\ sg_group # NoneVal
    /\ sg_foreign < MaxForeign
    /\ sg_group' = NoneVal
    /\ sg_foreign' = sg_foreign + 1
    /\ UNCHANGED <<deployVars, unitVars, cmdVars, aws_sessions, verifyVars, readVars, sg_made, sg_denied, sg_pc, sg_cur, sg_hist>>

SgNext ==
    \/ \E p \in Callers : sg_describe(p) \/ sg_create(p) \/ sg_call_again(p)
    \/ sg_foreign_delete

SgSpec == SgInit /\ [][SgNext]_vars

\* C12: _ensure_security_group is idempotent: when a call returned an
\* identifier and nobody else changed the group since, the caller's next call
\* makes no create_security_group call and returns the same identifier.
C12_EnsureSecurityGroupIdempotent ==
    \A p \in Callers : \A k \in 1..(Len(sg_hist[p]) - 1) :
       (/\ sg_hist[p][k].exc = NoExc
        /\ sg_hist[p][k + 1].foreign = sg_hist[p][k].foreign)
       => /\ sg_hist[p][k + 1].creates = 0
          /\ sg_hist[p][k + 1].exc = NoExc
          /\ sg_hist[p][k + 1].ret = sg_hist[p][k].ret

C12_Witness ==
    \E p \in Callers :
       /\ Len(sg_hist[p]) = 2
       /\ sg_hist[p][1].creates = 1
       /\ sg_hist[p][1].exc = NoExc
       /\ sg_hist[p][2].probe = "found"
       /\ sg_foreign = 0

\* C13: when two concurrent deployments both probe the missing group and
\* both try to create it, and the provider refuses nothing but the duplicate,
\* both calls return the group's identifier and neither raises.
C13_CreateRaceHandled ==
    (/\ \A p \in Callers : /\ Len(sg_hist[p]) >= 1
                           /\ sg_hist[p][1].probe = "notfound"
                           /\ sg_hist[p][1].exc.detail # DetailSgCreateFailed(ErrLimit)
                           /\ sg_hist[p][1].foreign = 0)
    => \E id \in {SgIds[i] : i \in DOMAIN SgIds} :
          \A p \in Callers : /\ sg_hist[p][1].exc = NoExc
                             /\ sg_hist[p][1].ret = id

\* ------------------------------------------------------------------------
\* auth_routes: the session store, get_session_credentials read at once,
\* and one call of cloudformation_verify
\* ------------------------------------------------------------------------
max_attempts == 24
retry_delay == 5
DurationSeconds == 3600

SessionIds == {"s1", "s2", "s3"}
Region == "us-east-1"
OrgId == "org-1"
RoleArn(account) == <<"arn:aws:iam::">> \o account \o <<":role/InversionDeployerRole">>
TrustArn == <<"arn:aws:iam::851725483944:root">>
CallerArn == <<"arn:aws:iam::851725483944:user/my-tool-backend">>
UnableToDetermine == Sp(<<"Unable", "to", "determine">>)

\* datetime.isoformat() and datetime.fromisoformat(): seconds and UTC offset
IsoFormat(d) == <<d.secs, IF d.tz = "utc" THEN "+00:00" ELSE "">>
FromIsoFormat(text) == [secs |-> text[1], tz |-> IF text[2] = "+00:00" THEN "utc" ELSE "none"]
\* if expiration.tzinfo is None: expiration.replace(tzinfo=timezone.utc)
AsUtc(d) == IF d.tz = "none" THEN [d EXCEPT !.tz = "utc"] ELSE d
\* expiration < now, now being an aware UTC time in seconds
Expired(session, now) == AsUtc(FromIsoFormat(session.expiration)).secs < now

DetailNoSessionId == Sp(<<"No", "session", "ID", "provided">>)
DetailInvalidSession == Sp(<<"Invalid", "or", "expired", "session">>)
DetailSessionExpired == Sp(<<"Session", "expired.", "Please", "login", "again.">>)

Remove(store, id) == [k \in DOMAIN store \ {id} |-> store[k]]

\* get_session_credentials(session_id) at time now, run without interruption:
\* what it returns or raises, and the store it leaves.
ReadSession(store, id, now) ==
    IF id = ""
    THEN [out |-> NoSession, exc |-> HTTPException(401, DetailNoSessionId), store |-> store]
    ELSE IF id \notin DOMAIN store
    THEN [out |-> NoSession, exc |-> HTTPException(401, DetailInvalidSession), store |-> store]
    ELSE IF Expired(store[id], now)
    THEN [out |-> NoSession, exc |-> HTTPException(401, DetailSessionExpired),
          store |-> Remove(store, id)]
    ELSE [out |-> store[id], exc |-> NoExc, store |-> store]

\* Errors of cloudformation_verify
DetailInvalidAccount == Sp(<<"Invalid", "AWS", "Account", "ID.">>)
DetailLoginFirst == Sp(<<"You", "must", "be", "logged", "in">>)
DetailNotAdmin == Sp(<<"You", "must", "be", "an", "ADMIN", "or", "OWNER">>)
DetailNotConfigured == Sp(<<"Server", "configuration", "error">>)
DetailRoleNotFound(account) ==
    Sp(<<"Role", "'InversionDeployerRole'", "not", "found", "in", "account">>)
    \o <<" ">> \o account
DetailAccessDenied(role, expected, actual) ==
    Sp(<<"Access", "denied", "when", "trying", "to", "assume", "role">>) \o <<" ">>
    \o role \o <<" ">> \o <<"Expected", ":", " ">> \o expected \o <<" ">>
    \o <<"Actual", ":", " ">> \o actual
DetailBackendCredentials == Sp(<<"Backend", "AWS", "credentials", "are", "invalid.">>)
DetailAssumeFailed(code) == Sp(<<"Failed", "to", "assume", "role">>) \o Colon \o <<code>>
DetailUnexpected(text) == Sp(<<"Unexpected", "error">>) \o Colon \o text
DetailMaxRetries == Sp(<<"Failed", "to", "connect", "after", "maximum", "retries">>)

RoleNotFound == HTTPException(404, DetailRoleNotFound(AccountId))
TrustMismatch(actual) ==
    HTTPException(403, DetailAccessDenied(RoleArn(AccountId), TrustArn,
                                          IF Truthy(actual) THEN actual
                                          ELSE UnableToDetermine))

\* What stops the handler before the retry loop.
PrecheckFailures == {HTTPException(400, DetailInvalidAccount),
                     HTTPException(401, DetailLoginFirst),
                     HTTPException(403, DetailNotAdmin),
                     HTTPException(500, DetailNotConfigured)}

\* Credentials sts.assume_role can answer with; they expire DurationSeconds
\* after the call.
AssumeRoleCredentials ==
    { [AccessKeyId |-> k, SecretAccessKey |-> "secret", SessionToken |-> "token",
       Expiration |-> [secs |-> DurationSeconds, tz |-> "utc"]] : k \in {"ASIA1", "ASIA2"} }

\* Error codes of a ClientError of sts.assume_role
AssumeRoleCodes == {"NoSuchEntity", "AccessDenied", "InvalidClientTokenId",
                    "SignatureDoesNotMatch", "Throttling"}

\* A session somebody stored earlier.
OldSession == [access_key_id |-> "ASIA0", secret_access_key |-> "secret",
               session_token |-> "token", expiration |-> <<DurationSeconds, "+00:00">>,
               region |-> Region, role_arn |-> RoleArn(AccountId),
               account_id |-> AccountId, org_id |-> OrgId]

VerifyInit ==
    /\ UnitIdle
    /\ DeployIdle
    /\ CmdIdle
    /\ SgIdle
    /\ ReadIdle
    /\ aws_sessions \in {EmptyStore, [id \in {"s1"} |-> OldSession]}
    /\ vf_pc = "start"
    /\ vf_attempt = 0
    /\ vf_first_attempt = TRUE
    /\ vf_sleeps = 0
    /\ vf_codes = <<>>
    /\ vf_iam = "none"
    /\ vf_db = "none"
    /\ vf_creds = NoCreds
    /\ vf_session_id = ""
    /\ vf_ret = NoResponse
    /\ vf_exc = NoExc
    /\ vf_before = aws_sessions
    /\ vf_read = NoRead

\* raise e out of the handler
VfRaise(e) ==
    /\ vf_exc' = e
    /\ vf_pc' = "raised"

\* Everything before the retry loop: account id, login, membership, backend
\* credentials.
vf_precheck ==
    /\ vf_pc = "start"
    /\ \/ vf_pc' = "assume_role" /\ UNCHANGED vf_exc
       \/ \E e \in PrecheckFailures : VfRaise(e)
    /\ UNCHANGED <<deployVars, unitVars, cmdVars, sgVars, readVars, aws_sessions, vf_attempt,
                   vf_first_attempt, vf_sleeps, vf_codes, vf_iam, vf_db, vf_creds,
                   vf_session_id, vf_ret, vf_before, vf_read>>

\* if attempt < max_attempts - 1
AlwaysRetry(n) == TRUE
MayRetry(n) == n < max_attempts - 1

\* error_code == 'NoSuchEntity'
NothingRetryable(code) == FALSE
Retryable(code) == code = "NoSuchEntity"

\* error_code in ['InvalidClientTokenId', 'SignatureDoesNotMatch']
MalformedTokenOnly(code) == code = "InvalidClientTokenId"
Malformed(code) == code \in {"InvalidClientTokenId", "SignatureDoesNotMatch"}

\* One iteration of the loop: sts.assume_role and the except clauses.
vf_assume_role ==
    /\ vf_pc = "assume_role"
    /\ \/ \E c \in AssumeRoleCredentials :
            /\ vf_codes' = Append(vf_codes, "Success")
            /\ vf_creds' = c
            /\ vf_pc' = "store"
            /\ UNCHANGED <<vf_attempt, vf_sleeps, vf_exc>>
       \/ /\ vf_codes' = Append(vf_codes, "Exception")
          /\ VfRaise(HTTPException(500, DetailUnexpected(<<"EndpointConnectionError">>)))
          /\ UNCHANGED <<vf_attempt, vf_sleeps, vf_creds>>
       \/ \E code \in AssumeRoleCodes :
            /\ vf_codes' = Append(vf_codes, code)
            /\ UNCHANGED vf_creds
            /\ IF Retryable(code)
               THEN IF MayRetry(vf_attempt)
                    THEN \* time.sleep(retry_delay); continue
                         /\ vf_sleeps' = vf_sleeps + 1
                         /\ vf_attempt' = vf_attempt + 1
                         /\ IF vf_attempt + 1 < max_attempts
                            THEN UNCHANGED <<vf_pc, vf_exc>>
                            ELSE VfRaise(HTTPException(500, DetailMaxRetries))
                    ELSE /\ VfRaise(RoleNotFound)
                         /\ UNCHANGED <<vf_attempt, vf_sleeps>>
               ELSE IF code = "AccessDenied"
               THEN /\ IF vf_first_attempt
                       THEN vf_pc' = "get_role" /\ UNCHANGED vf_exc
                       ELSE \E actual \in {NoneVal, CallerArn} : VfRaise(TrustMismatch(actual))
                    /\ UNCHANGED <<vf_attempt, vf_sleeps>>
               ELSE IF Malformed(code)
               THEN /\ VfRaise(HTTPException(500, DetailBackendCredentials))
                    /\ UNCHANGED <<vf_attempt, vf_sleeps>>
               ELSE /\ VfRaise(HTTPException(401, DetailAssumeFailed(code)))
                    /\ UNCHANGED <<vf_attempt, vf_sleeps>>
    \* first_attempt = False stands after the if/elif chain, whose branches
    \* all continue or raise: it is never executed
    /\ UNCHANGED <<deployVars, unitVars, cmdVars, sgVars, readVars, aws_sessions, vf_first_attempt, vf_iam,
                   vf_db, vf_session_id, vf_ret, vf_before, vf_read>>

\* AccessDenied with first_attempt set: iam_client.get_role in the backend's
\* own account, then the trust-mismatch error unless it says NoSuchEntity.
vf_get_role ==
    /\ vf_pc = "get_role"
    /\ \E answer \in {"NoSuchEntity", "AccessDenied", "Role", "Exception"} :
         /\ vf_iam' = answer
         /\ IF answer = "NoSuchEntity"
            THEN VfRaise(RoleNotFound)
            ELSE IF answer = "Exception"
            THEN VfRaise(OtherException(<<"EndpointConnectionError">>))
            ELSE \E actual \in {NoneVal, CallerArn} : VfRaise(TrustMismatch(actual))
    /\ UNCHANGED <<deployVars, unitVars, cmdVars, sgVars, readVars, aws_sessions, vf_attempt,
                   vf_first_attempt, vf_sleeps, vf_codes, vf_db, vf_creds,
                   vf_session_id, vf_ret, vf_before, vf_read>>

\* session_id = str(uuid.uuid4())
AnyId(store) == SessionIds
FreshIds(store) == SessionIds \ DOMAIN store

StoredSession(c) ==
    [access_key_id |-> c.AccessKeyId, secret_access_key |-> c.SecretAccessKey,
     session_token |-> c.SessionToken, expiration |-> IsoFormat(c.Expiration),
     region |-> Region, role_arn |-> RoleArn(AccountId), account_id |-> AccountId,
     org_id |-> OrgId]

\* After the stack check, which swallows its own errors:
\* aws_sessions[session_id] = {...}
vf_store ==
    /\ vf_pc = "store"
    /\ \E id \in FreshIds(aws_sessions) :
         /\ vf_session_id' = id
         /\ aws_sessions' = (id :> StoredSession(vf_creds)) @@ aws_sessions
    /\ vf_pc' = "connection"
    /\ UNCHANGED <<deployVars, unitVars, cmdVars, sgVars, readVars, vf_attempt, vf_first_attempt,
                   vf_sleeps, vf_codes, vf_iam, vf_db, vf_creds, vf_ret, vf_exc,
                   vf_before, vf_read>>

\* The connection is written to the database, then the response returned; a
\* database error ends in the handler's except Exception.
vf_connection ==
    /\ vf_pc = "connection"
    /\ \/ /\ vf_db' = "ok"
          /\ vf_ret' = [status |-> "ok", session_id |-> vf_session_id,
                        expires_at |-> IsoFormat(vf_creds.Expiration),
                        account_id |-> AccountId, role_arn |-> RoleArn(AccountId),
                        attempt |-> vf_attempt + 1]
          /\ vf_pc' = "returned"
          /\ UNCHANGED vf_exc
       \/ /\ vf_db' = "error"
          /\ VfRaise(HTTPException(500, DetailUnexpected(<<"ServerSelectionTimeoutError">>)))
          /\ UNCHANGED vf_ret
    /\ UNCHANGED <<deployVars, unitVars, cmdVars, sgVars, readVars, aws_sessions, vf_attempt,
                   vf_first_attempt, vf_sleeps, vf_codes, vf_iam, vf_creds,
                   vf_session_id, vf_before, vf_read>>

\* Seconds since the assume_role call at which the session is read.
ReadTimes == {DurationSeconds - 1, DurationSeconds, DurationSeconds + 1}

\* A request made with the returned session id.
vf_read_session ==
    /\ vf_pc = "returned"
    /\ \E now \in ReadTimes :
         LET r == ReadSession(aws_sessions, vf_ret.session_id, now) IN
         /\ vf_read' = [time |-> now, out |-> r.out, exc |-> r.exc]
         /\ aws_sessions' = r.store
    /\ vf_pc' = "read"
    /\ UNCHANGED <<deployVars, unitVars, cmdVars, sgVars, readVars, vf_attempt, vf_first_attempt,
                   vf_sleeps, vf_codes, vf_iam, vf_db, vf_creds, vf_session_id,
                   vf_ret, vf_exc, vf_before>>

VerifyNext ==
    \/ vf_precheck
    \/ vf_assume_role
    \/ vf_get_role
    \/ vf_store
    \/ vf_connection
    \/ vf_read_session

VerifySpec == VerifyInit /\ [][VerifyNext]_vars

VerifyFairSpec == VerifySpec /\ WF_vars(VerifyNext)

\* C14: cloudformation_verify makes at most 24 assume-role attempts, sleeps
\* only between attempts (never after the 24th), and ends either with a
\* response or with an error.
C14_VerifyStopsAfterBudget ==
    /\ [](/\ Len(vf_codes) <= max_attempts
          /\ vf_sleeps <= max_attempts - 1
          /\ vf_sleeps <= Len(vf_codes)
          /\ Len(vf_codes) = max_attempts => vf_sleeps = max_attempts - 1
          /\ vf_pc = "returned" => vf_ret.status = "ok" /\ vf_exc = NoExc
          /\ vf_pc = "raised" => vf_ret = NoResponse /\ vf_exc # NoExc)
    /\ <>(vf_pc \in {"returned", "raised"})

C14_Witness ==
    /\ vf_pc = "raised"
    /\ Len(vf_codes) = max_attempts
    /\ vf_sleeps = max_attempts - 1

\* C15: a NoSuchEntity answer before the last attempt is followed by one
\* sleep and another attempt; a success on a later attempt gives a stored
\* session and a response; NoSuchEntity on the 24th attempt fails with the
\* role-not-found error (404).
C15_NotFoundRetriedUntilLastAttempt ==
    /\ \A i \in 1..(Len(vf_codes) - 1) : vf_codes[i] = "NoSuchEntity"
    /\ (Len(vf_codes) >= 1 /\ Last(vf_codes) = "NoSuchEntity")
       => IF Len(vf_codes) < max_attempts
          THEN vf_pc = "assume_role" /\ vf_exc = NoExc /\ vf_sleeps = Len(vf_codes)
          ELSE vf_pc = "raised" /\ vf_exc = RoleNotFound /\ vf_exc.status = 404
    /\ (Len(vf_codes) >= 1 /\ Last(vf_codes) = "Success" /\ vf_db = "ok")
       => /\ vf_ret.status = "ok"
          /\ vf_ret.attempt = Len(vf_codes)
          /\ vf_ret.session_id = vf_session_id
          /\ vf_pc = "returned" => aws_sessions[vf_session_id] = StoredSession(vf_creds)

C15_Witness ==
    /\ vf_pc = "returned"
    /\ Len(vf_codes) = max_attempts
    /\ vf_sleeps = max_attempts - 1

\* C16: AccessDenied on the first assume-role attempt fails with the
\* role-not-found error (404), not with the trust-mismatch error.
C16_AccessDeniedFirstAttemptIsNotFound ==
    (Len(vf_codes) = 1 /\ vf_codes[1] = "AccessDenied" /\ vf_pc = "raised")
    => vf_exc = RoleNotFound

\* C17: AccessDenied on an attempt after the first fails with the
\* trust-mismatch error (403) naming the expected and the actual identity,
\* never with the role-not-found error.
C17_AccessDeniedLaterIsTrustMismatch ==
    (Len(vf_codes) > 1 /\ Last(vf_codes) = "AccessDenied" /\ vf_pc = "raised")
    => /\ vf_exc.status = 403
       /\ \E actual \in {NoneVal, CallerArn} : vf_exc = TrustMismatch(actual)

\* C18: InvalidClientTokenId or SignatureDoesNotMatch on any attempt ends the
\* call at once with the backend-credentials error: no sleep, no further
\* attempt, no other provider call.
C18_MalformedCredentialsFatal ==
    (Len(vf_codes) >= 1
     /\ Last(vf_codes) \in {"InvalidClientTokenId", "SignatureDoesNotMatch"})
    => /\ vf_pc = "raised"
       /\ vf_exc = HTTPException(500, DetailBackendCredentials)
       /\ vf_sleeps = Len(vf_codes) - 1
       /\ vf_iam = "none"

C18_Witness ==
    /\ Len(vf_codes) = 2
    /\ Last(vf_codes) = "SignatureDoesNotMatch"
    /\ vf_pc = "raised"

\* C19: a successful verify adds exactly one session under a new id and
\* returns that id; the entries that were there stay as they were; reading
\* the id up to the expiry gives the credentials, expiry, account id, role
\* ARN and region of the assume-role response.
C19_VerifyStoresOneSession ==
    /\ \A k \in DOMAIN vf_before :
          k \in DOMAIN aws_sessions /\ aws_sessions[k] = vf_before[k]
    /\ vf_pc = "returned"
       => /\ vf_ret.session_id \notin DOMAIN vf_before
          /\ DOMAIN aws_sessions = DOMAIN vf_before \cup {vf_ret.session_id}
    /\ (vf_pc = "read" /\ vf_read.time <= vf_creds.Expiration.secs)
       => /\ vf_read.exc = NoExc
          /\ vf_read.out.access_key_id = vf_creds.AccessKeyId
          /\ vf_read.out.secret_access_key = vf_creds.SecretAccessKey
          /\ vf_read.out.session_token = vf_creds.SessionToken
          /\ FromIsoFormat(vf_read.out.expiration) = vf_creds.Expiration
          /\ vf_read.out.account_id = AccountId
          /\ vf_read.out.role_arn = RoleArn(AccountId)
          /\ vf_read.out.region = Region

C19_Witness ==
    /\ vf_pc = "read"
    /\ vf_read.time = DurationSeconds
    /\ vf_read.exc = NoExc
    /\ DOMAIN vf_before = {"s1"}

\* C37: when the trust-verification handler ends in an error, the session
\* store is as it was when the handler was entered; a session is in the
\* store only if it was there before or its id was returned by the call.
C37_ErrorLeavesStoreUnchanged ==
    /\ vf_pc = "raised" => aws_sessions = vf_before
    /\ \A k \in DOMAIN aws_sessions :
          \/ k \in DOMAIN vf_before
          \/ vf_pc = "connection"
          \/ vf_pc \in {"returned", "read"} /\ vf_ret.session_id = k

\* The handler stored a session and then failed writing the connection.
OrphanSession ==
    /\ vf_pc = "raised"
    /\ vf_db = "error"
    /\ vf_session_id \in DOMAIN aws_sessions
    /\ vf_session_id \notin DOMAIN vf_before

\* ------------------------------------------------------------------------
\* get_session_credentials: concurrent readers of the session store
\* ------------------------------------------------------------------------
MaxClock == 3

\* When the stored session expires.
ExpiresAt == 2

\* The session in the store, its expiration written with or without offset.
SessionExpiring(at, offset) == [OldSession EXCEPT !.expiration = <<at, offset>>]

ReadInit ==
    /\ UnitIdle
    /\ DeployIdle
    /\ CmdIdle
    /\ SgIdle
    /\ VerifyIdle
    /\ \E offset \in {"+00:00", ""} :
         aws_sessions = [id \in {"s1"} |-> SessionExpiring(ExpiresAt, offset)]
    /\ rd_store0 = aws_sessions
    /\ rd_clock = 1
    /\ rd_pc = [r \in Readers |-> "get"]
    /\ rd_id \in [Readers -> {"", "s1", "s2"}]
    /\ rd_session = [r \in Readers |-> NoSession]
    /\ rd_now = [r \in Readers |-> 0]
    /\ rd_out = [r \in Readers |-> NoOutcome]

\* The call of reader r ends.
RdEnd(r, present, out, e, removed) ==
    /\ rd_out' = [rd_out EXCEPT ![r] = [present |-> present, out |-> out, exc |-> e,
                                         removed |-> removed]]
    /\ rd_pc' = [rd_pc EXCEPT ![r] = IF e = NoExc THEN "returned" ELSE "raised"]

\* if not session_id: raise; session = aws_sessions.get(session_id);
\* if not session: raise
rd_get(r) ==
    /\ rd_pc[r] = "get"
    /\ IF rd_id[r] = ""
       THEN /\ RdEnd(r, FALSE, NoSession, HTTPException(401, DetailNoSessionId), FALSE)
            /\ UNCHANGED rd_session
       ELSE IF rd_id[r] \notin DOMAIN aws_sessions
       THEN /\ RdEnd(r, FALSE, NoSession, HTTPException(401, DetailInvalidSession), FALSE)
            /\ UNCHANGED rd_session
       ELSE /\ rd_session' = [rd_session EXCEPT ![r] = aws_sessions[rd_id[r]]]
            /\ rd_pc' = [rd_pc EXCEPT ![r] = "now"]
            /\ UNCHANGED rd_out
    /\ UNCHANGED <<deployVars, unitVars, cmdVars, sgVars, aws_sessions, verifyVars, rd_clock,
                   rd_store0, rd_id, rd_now>>

\* expiration = datetime.fromisoformat(...); now = datetime.now(timezone.utc)
rd_read_clock(r) ==
    /\ rd_pc[r] = "now"
    /\ rd_now' = [rd_now EXCEPT ![r] = rd_clock]
    /\ rd_pc' = [rd_pc EXCEPT ![r] = "check"]
    /\ UNCHANGED <<deployVars, unitVars, cmdVars, sgVars, aws_sessions, verifyVars, rd_clock,
                   rd_store0, rd_id, rd_session, rd_out>>

\* aws_sessions.pop(session_id, None)
KeepEntry(store, id) == store
PopEntry(store, id) == Remove(store, id)

\* if expiration < now: pop and raise; else return session
rd_check(r) ==
    /\ rd_pc[r] = "check"
    /\ IF Expired(rd_session[r], rd_now[r])
       THEN /\ aws_sessions' = PopEntry(aws_sessions, rd_id[r])
            /\ RdEnd(r, TRUE, NoSession, HTTPException(401, DetailSessionExpired),
                     rd_id[r] \in DOMAIN aws_sessions)
       ELSE /\ RdEnd(r, TRUE, rd_session[r], NoExc, FALSE)
            /\ UNCHANGED aws_sessions
    /\ UNCHANGED <<deployVars, unitVars, cmdVars, sgVars, verifyVars, rd_clock, rd_store0,
                   rd_id, rd_session, rd_now>>

\* A second passes.
rd_tick ==
    /\ rd_clock < MaxClock
    /\ rd_clock' = rd_clock + 1
    /\ UNCHANGED <<deployVars, unitVars, cmdVars, sgVars, aws_sessions, verifyVars, rd_store0,
                   rd_pc, rd_id, rd_session, rd_now, rd_out>>

ReadNext ==
    \/ \E r \in Readers : rd_get(r) \/ rd_read_clock(r) \/ rd_check(r)
    \/ rd_tick

ReadSpec == ReadInit /\ [][ReadNext]_vars

RdDone(r) == rd_pc[r] \in {"returned", "raised"}

\* C20: get_session_credentials returns the stored session iff the id is
\* present and now <= expiry; otherwise it raises 401, for an absent id and
\* for an expired one alike; an expired entry is removed and stays away, so
\* later reads fail; a successful read does not change the store; under any
\* interleaving of concurrent readers.
C20_SessionReadContract ==
    /\ \A r \in Readers : RdDone(r) =>
          /\ rd_out[r].exc = NoExc
             <=> /\ rd_out[r].present
                 /\ rd_now[r] <= ExpiresAt
          /\ rd_out[r].exc = NoExc
             => /\ rd_out[r].out = rd_store0[rd_id[r]]
                /\ ~rd_out[r].removed
          /\ rd_out[r].exc # NoExc
             => /\ rd_out[r].exc.type = "HTTPException"
                /\ rd_out[r].exc.status = 401
          /\ (rd_out[r].present /\ rd_now[r] > ExpiresAt)
             => rd_id[r] \notin DOMAIN aws_sessions
    /\ aws_sessions # rd_store0
       => \E r \in Readers : RdDone(r) /\ rd_out[r].removed

C20_Witness ==
    /\ \A r \in Readers : rd_id[r] = "s1" /\ RdDone(r) /\ rd_out[r].present
    /\ rd_out[1].exc = NoExc
    /\ rd_out[2].exc # NoExc
    /\ rd_out[2].removed

\* ------------------------------------------------------------------------
\* The milestone loops: event_stream and DeploymentWorker._maybe_emit_progress
\* ------------------------------------------------------------------------
MaxLines == 3

\* DeploymentWorker._MILESTONES, as written in the desktop worker.
MILESTONES == <<
    <<Sp(<<"Checking", "AWS", "CLI", "prerequisites">>), 5>>,
    <<Sp(<<"Key", "pair">>), 10>>,
    <<Sp(<<"Finding", "latest">>), 15>>,
    <<Sp(<<"Creating", "security", "group">>), 20>>,
    <<Sp(<<"Launching", "EC2">>), 30>>,
    <<Sp(<<"Waiting", "for", "instance", "state">>), 40>>,
    <<Sp(<<"Waiting", "for", "AWS", "status", "checks">>), 50>>,
    <<Sp(<<"SSH", "connection", "established">>), 55>>,
    <<Sp(<<"Installing", "Docker">>), 60>>,
    <<Sp(<<"Docker", "installation", "completed">>), 70>>,
    <<Sp(<<"Configuring", "AWS", "credentials">>), 75>>,
    <<Sp(<<"AWS", "SSO", "credentials", "configured">>), 80>>,
    <<Sp(<<"Pulling">>), 85>>,
    <<Sp(<<"Container", "deployment", "completed">>), 95>>,
    <<Sp(<<"Deployment", "completed", "successfully">>), 100>>
>>

\* _maybe_emit_progress: index of the first entry, from entry k on, whose
\* lower-cased text occurs in the lower-cased line; 0 when none.
RECURSIVE MaybeEmitFrom(_, _)
MaybeEmitFrom(lowered, k) ==
    IF k > Len(MILESTONES) THEN 0
    ELSE IF Contains(lowered, Lower(MILESTONES[k][1])) THEN k
    ELSE MaybeEmitFrom(lowered, k + 1)

MaybeEmitProgress(line) == MaybeEmitFrom(Lower(line), 1)

LineOverlap == Sp(<<"Container", "deployment", "completed", "successfully">>)
LineOutOfOrder ==
    Sp(<<"PULLING", "image", "after", "Docker", "installation", "completed">>)
LineLower == Sp(<<"key", "pair", "found">>)

\* Lines of the pipeline and of the deploy script: one match, no match,
\* overlapping matches, matches against table order, no capitals.
MilestoneLines ==
    { LogMessage(MsgLaunching), LogMessage(MsgSsmEstablished),
      LogMessage(MsgDeploymentCompleted), LineOverlap, LineOutOfOrder, LineLower }

MilestoneInit ==
    /\ CoreIdle
    /\ ImageIdle
    /\ AddressIdle
    /\ IamIdle
    /\ WaitIdle
    /\ LaunchIdle
    /\ SsoIdle
    /\ ms_path \in {"stream", "desktop"}
    /\ ms_pc = "idle"
    /\ ms_line = <<>>
    /\ ms_events = <<>>

LinesFed == Cardinality({i \in 1..Len(ms_events) : ms_events[i].event = "log"})

\* yield _sse("log", data)  /  self.log.emit(line.rstrip())
ms_log(line) ==
    /\ ms_pc = "idle"
    /\ LinesFed < MaxLines
    /\ ms_line' = line
    /\ ms_events' = Append(ms_events, [event |-> "log", data |-> line, pct |-> 0])
    /\ ms_pc' = "match"
    /\ UNCHANGED <<msRest, ms_path>>

\* The loop over the table, left at the first match.
ms_match ==
    /\ ms_pc = "match"
    /\ LET k == IF ms_path = "stream" THEN FirstMilestone(ms_line)
                ELSE MaybeEmitProgress(ms_line)
           table == IF ms_path = "stream" THEN AwsMilestones ELSE MILESTONES
       IN  ms_events' = IF k > 0
                        THEN Append(ms_events, [event |-> "progress", data |-> <<>>,
                                                pct |-> table[k][2]])
                        ELSE ms_events
    /\ ms_pc' = "idle"
    /\ UNCHANGED <<msRest, ms_path, ms_line>>

MilestoneNext == (\E line \in MilestoneLines : ms_log(line)) \/ ms_match

MilestoneSpec == MilestoneInit /\ [][MilestoneNext]_vars

\* Table entries whose substring occurs in the lower-cased line.
Matching(line) ==
    {k \in 1..Len(AwsMilestones) : Contains(Lower(line), AwsMilestones[k][1])}

FirstMatching(line) == CHOOSE k \in Matching(line) : \A j \in Matching(line) : k <= j

\* C21: every progress event directly follows a log event whose line matches
\* some table entry and carries the percent of the first such entry in table
\* order; a line that matches gets exactly one progress event, a line that
\* matches nothing gets none; the percent is a function of that line alone.
C21_FirstSubstringWins ==
    /\ \A i \in 1..Len(ms_events) :
          ms_events[i].event = "progress"
          => /\ i > 1
             /\ ms_events[i - 1].event = "log"
             /\ Matching(ms_events[i - 1].data) # {}
             /\ ms_events[i].pct
                = AwsMilestones[FirstMatching(ms_events[i - 1].data)][2]
    /\ \A i \in 1..Len(ms_events) :
          (ms_events[i].event = "log" /\ Matching(ms_events[i].data) # {})
          => IF i < Len(ms_events) THEN ms_events[i + 1].event = "progress"
             ELSE ms_pc = "match"

C21_Witness ==
    /\ Len(ms_events) = 4
    /\ ms_pc = "idle"
    /\ ms_events[1].data = LineOutOfOrder
    /\ ms_events[2].event = "progress" /\ ms_events[2].pct = 70
    /\ ms_events[3].data = LineOverlap
    /\ ms_events[4].event = "progress" /\ ms_events[4].pct = 95

\* ------------------------------------------------------------------------
\* _launch_ec2_instance: from the role check to run_instances
\* ------------------------------------------------------------------------
LaunchTypes == { <<"hpc7a", ".96xlarge">>, <<"HPC6A", ".48xlarge">>, <<"g5", ".xlarge">> }
LaunchRegions == {"us-east-2", "us-east-1"}
RequestZone == <<"us-east-2b">>
SubnetId == <<"subnet-1">>
SubnetZone == <<"us-east-2a">>
ProfileArn == <<"arn:aws:iam::123456789012:instance-profile/role">>
PlacementGroupName == <<"inversion-deployer-hpc-placement-group-">> \o AccountId

\* hpc_families: a family name occurring in the lower-cased instance type.
hpc_families == <<"hpc6a", "hpc6id", "hpc7a", "hpc7g">>

Hpc7aOnly(instance_type) == Contains(Lower(instance_type), <<"hpc7a">>)
RequiresClusterPlacementGroup(instance_type) ==
    \E i \in 1..Len(hpc_families) :
        Contains(Lower(instance_type), <<hpc_families[i]>>)

\* _get_hpc7a_supported_regions(): (code, name) in dictionary order.
Hpc7aSupportedRegions == <<
    <<"us-east-2", "US East (Ohio)">>,
    <<"eu-west-1", "Europe (Ireland)">>,
    <<"eu-west-3", "Europe (Paris)">>,
    <<"eu-north-1", "Europe (Stockholm)">>,
    <<"us-gov-west-1", "AWS GovCloud (US-West)">>
>>

\* `region not in supported_regions`, negated.
AnyRegionSupported(region) == TRUE
RegionSupported(region) ==
    \E i \in 1..Len(Hpc7aSupportedRegions) : Hpc7aSupportedRegions[i][1] = region

\* ', '.join(f"{code} ({name})" ...), from entry k on.
RECURSIVE RegionListFrom(_)
RegionListFrom(k) ==
    IF k > Len(Hpc7aSupportedRegions) THEN <<>>
    ELSE <<Hpc7aSupportedRegions[k][1], " ", "(", Hpc7aSupportedRegions[k][2], ")">>
         \o (IF k < Len(Hpc7aSupportedRegions) THEN <<",", " ">> ELSE <<>>)
         \o RegionListFrom(k + 1)

DetailHpc7aRegion(region) ==
    Sp(<<"HPC7a", "instances", "are", "not", "available", "in", "region">>)
    \o <<" ", "'", region, "'", ".", " ">>
    \o Sp(<<"HPC7a", "instances", "are", "only", "available", "in", "the",
            "following", "regions">>) \o Colon \o RegionListFrom(1) \o <<".", " ">>
    \o Sp(<<"Please", "use", "one", "of", "these", "regions", "to", "launch",
            "HPC7a", "instances">>) \o <<".">>
DetailNoOffering(instance_type, region) ==
    Sp(<<"Instance", "type">>) \o <<" ", "'">> \o instance_type \o <<"'", " ">>
    \o Sp(<<"is", "not", "available", "in", "region">>) \o <<" ", "'", region, "'", " ">>
    \o Sp(<<"(even", "though", "it's", "a", "supported", "HPC7a", "region)">>)
    \o <<".", " ">> \o Sp(<<"HPC7a", "instances", "are", "available", "in">>)
    \o Colon \o RegionListFrom(1) \o <<".">>
DetailProfileFailed(e) ==
    Sp(<<"Failed", "to", "get", "instance", "profile">>) \o Colon \o e
DetailPgCreateFailed(e) ==
    Sp(<<"Failed", "to", "create", "placement", "group">>) \o Colon \o e
DetailPgCheckFailed(e) ==
    Sp(<<"Failed", "to", "check", "placement", "group">>) \o Colon \o e
DetailSgNotFound(name) ==
    Sp(<<"Security", "group">>) \o <<" ", "'">> \o name \o <<"'", " ">>
    \o Sp(<<"not", "found">>)
DetailSgFailed(e) == Sp(<<"Failed", "to", "get", "security", "group">>) \o Colon \o e
DetailSubnetFailed(e) ==
    Sp(<<"Failed", "to", "get", "subnet", "availability", "zone">>) \o Colon \o e

\* run_params[k] = v
Put(params, k, v) ==
    [x \in DOMAIN params \cup {k} |-> IF x = k THEN v ELSE params[x]]

LaunchInit ==
    /\ CoreIdle
    /\ ImageIdle
    /\ AddressIdle
    /\ IamIdle
    /\ WaitIdle
    /\ MilestoneIdle
    /\ SsoIdle
    /\ lr_type \in LaunchTypes
    /\ lr_region \in LaunchRegions
    /\ lr_az \in {NoneVal, RequestZone}
    /\ lr_subnet \in {NoneVal, SubnetId}
    /\ lr_pc = "role"
    /\ lr_group = NoneVal
    /\ lr_params = EmptyParams
    /\ lr_calls = <<>>
    /\ lr_exc = NoExc

LrRaise(e) == lr_exc' = e /\ lr_pc' = "raised"
LrCall(names) == lr_calls' = lr_calls \o names

\* _ensure_iam_role, then get_instance_profile.
lr_role ==
    /\ lr_pc = "role"
    /\ \/ /\ LrCall(<<"ensure_iam_role">>)
          /\ LrRaise(HTTPException(500, DetailRoleFailed(ErrUnauthorized)))
       \/ /\ LrCall(<<"ensure_iam_role", "get_instance_profile">>)
          /\ \/ LrRaise(HTTPException(500, DetailProfileFailed(ErrUnauthorized)))
             \/ lr_pc' = "validate" /\ UNCHANGED lr_exc
    /\ UNCHANGED <<lrRest, lr_type, lr_region, lr_az, lr_subnet, lr_group, lr_params>>

\* _validate_instance_type_region
lr_validate ==
    /\ lr_pc = "validate"
    /\ IF Contains(Lower(lr_type), <<"hpc7a">>)
       THEN IF ~RegionSupported(lr_region)
            THEN /\ LrRaise(HTTPException(400, DetailHpc7aRegion(lr_region)))
                 /\ UNCHANGED lr_calls
            ELSE /\ LrCall(<<"describe_instance_type_offerings">>)
                 /\ \E offerings \in {"some", "none", "ClientError"} :
                      IF offerings = "none"
                      THEN LrRaise(HTTPException(400,
                                       DetailNoOffering(lr_type, lr_region)))
                      ELSE lr_pc' = "placement" /\ UNCHANGED lr_exc
       ELSE lr_pc' = "placement" /\ UNCHANGED <<lr_exc, lr_calls>>
    /\ UNCHANGED <<lrRest, lr_type, lr_region, lr_az, lr_subnet, lr_group, lr_params>>

\* run_params as first built.
BaseParams ==
    Put(Put(Put(EmptyParams, "ImageId", LatestAmi), "InstanceType", lr_type),
        "IamInstanceProfile.Arn", ProfileArn)

\* run_params is built; _ensure_placement_group when the type requires it.
lr_placement ==
    /\ lr_pc = "placement"
    /\ lr_params' = BaseParams
    /\ IF RequiresClusterPlacementGroup(lr_type)
       THEN \E answer \in {"exists", "empty", "created", "duplicate",
                           "create_failed", "check_failed"} :
              /\ LrCall(IF answer \in {"created", "duplicate", "create_failed"}
                        THEN <<"describe_placement_groups", "create_placement_group">>
                        ELSE <<"describe_placement_groups">>)
              /\ IF answer = "create_failed"
                 THEN /\ LrRaise(HTTPException(500, DetailPgCreateFailed(ErrUnauthorized)))
                      /\ UNCHANGED lr_group
                 ELSE IF answer = "check_failed"
                 THEN /\ LrRaise(HTTPException(500, DetailPgCheckFailed(ErrUnauthorized)))
                      /\ UNCHANGED lr_group
                 ELSE /\ lr_group' = PlacementGroupName
                      /\ lr_pc' = "network"
                      /\ UNCHANGED lr_exc
       ELSE /\ lr_pc' = "network"
            /\ UNCHANGED <<lr_group, lr_calls, lr_exc>>
    /\ UNCHANGED <<lrRest, lr_type, lr_region, lr_az, lr_subnet>>

\* How the request names the security group.
GroupMembershipByName(params, subnet_id, name, id) ==
    IF Truthy(subnet_id)
    THEN Put(Put(params, "SecurityGroups", name), "SubnetId", subnet_id)
    ELSE Put(params, "SecurityGroups", name)
GroupMembership(params, subnet_id, name, id) ==
    IF Truthy(subnet_id)
    THEN Put(Put(params, "SecurityGroupIds", id), "SubnetId", subnet_id)
    ELSE Put(params, "SecurityGroups", name)

\* The else branch: Placement without a subnet.
PlacementNoSubnet(params, requires, group, az) ==
    IF requires /\ Truthy(group)
    THEN IF Truthy(az)
         THEN Put(Put(params, "Placement.GroupName", group),
                  "Placement.AvailabilityZone", az)
         ELSE Put(params, "Placement.GroupName", group)
    ELSE IF Truthy(az)
    THEN Put(params, "Placement.AvailabilityZone", az)
    ELSE params

\* if subnet_id: ... else: ...  (security groups and networking)
lr_network ==
    /\ lr_pc = "network"
    /\ IF Truthy(lr_subnet)
       THEN \E answer \in {"found", "empty", "found_by_id", "failed"} :
              /\ LrCall(IF answer \in {"found", "empty"}
                        THEN <<"describe_security_groups">>
                        ELSE <<"describe_security_groups", "describe_security_groups">>)
              /\ IF answer = "empty"
                 THEN /\ LrRaise(HTTPException(400, DetailSgNotFound(SecurityGroupName)))
                      /\ UNCHANGED lr_params
                 ELSE IF answer = "failed"
                 THEN /\ LrRaise(HTTPException(400, DetailSgFailed(ErrUnauthorized)))
                      /\ UNCHANGED lr_params
                 ELSE /\ lr_params' = GroupMembership(lr_params, lr_subnet,
                                                      SecurityGroupName, SgId)
                      /\ lr_pc' = IF RequiresClusterPlacementGroup(lr_type)
                                     /\ Truthy(lr_group)
                                  THEN "subnet_zone" ELSE "run"
                      /\ UNCHANGED lr_exc
       ELSE /\ lr_params' = PlacementNoSubnet(
                                GroupMembership(lr_params, lr_subnet,
                                                SecurityGroupName, SgId),
                                RequiresClusterPlacementGroup(lr_type), lr_group, lr_az)
            /\ lr_pc' = "run"
            /\ UNCHANGED <<lr_calls, lr_exc>>
    /\ UNCHANGED <<lrRest, lr_type, lr_region, lr_az, lr_subnet, lr_group>>

\* describe_subnets: the subnet's zone goes into Placement with the group.
lr_subnet_zone ==
    /\ lr_pc = "subnet_zone"
    /\ LrCall(<<"describe_subnets">>)
    /\ \/ /\ lr_params' = Put(Put(lr_params, "Placement.GroupName", lr_group),
                              "Placement.AvailabilityZone", SubnetZone)
          /\ lr_pc' = "run"
          /\ UNCHANGED lr_exc
       \/ /\ LrRaise(HTTPException(500, DetailSubnetFailed(ErrUnauthorized)))
          /\ UNCHANGED lr_params
    /\ UNCHANGED <<lrRest, lr_type, lr_region, lr_az, lr_subnet, lr_group>>

\* ec2_client.run_instances(**run_params)
lr_run_instances ==
    /\ lr_pc = "run"
    /\ LrCall(<<"run_instances">>)
    /\ \/ lr_pc' = "launched" /\ UNCHANGED lr_exc
       \/ LrRaise(HTTPException(500, DetailLaunchFailed(ErrUnauthorized)))
    /\ UNCHANGED <<lrRest, lr_type, lr_region, lr_az, lr_subnet, lr_group, lr_params>>

\* What describe_instances reports as PublicDnsName: '' until the address
\* is assigned (and for an instance that gets no public address).
AddressAnswers == {<<>>, PublicDnsName}

\* waiter.wait(instance_running): WaiterError is not a ClientError.
dn_wait ==
    /\ lr_pc = "launched"
    /\ dn_pc = "idle"
    /\ \/ dn_pc' = "read" /\ UNCHANGED dn_exc
       \/ dn_pc' = "raised" /\ dn_exc' = OtherException(<<"WaiterError">>)
    /\ UNCHANGED <<dnRest, dn_dns, dn_reads, dn_sleeps>>

\* describe_instances; if not public_dns: time.sleep(10)
dn_read ==
    /\ dn_pc = "read"
    /\ \/ \E d \in AddressAnswers :
            /\ dn_dns' = d
            /\ dn_reads' = dn_reads + 1
            /\ IF d = <<>>
               THEN dn_sleeps' = dn_sleeps + 1 /\ dn_pc' = "reread"
               ELSE dn_pc' = "returned" /\ UNCHANGED dn_sleeps
            /\ UNCHANGED dn_exc
       \/ /\ dn_pc' = "raised"
          /\ dn_exc' = HTTPException(500, DetailLaunchFailed(ErrUnauthorized))
          /\ dn_reads' = dn_reads + 1
          /\ UNCHANGED <<dn_dns, dn_sleeps>>
    /\ UNCHANGED dnRest

\* The second describe_instances, and return instance_id, public_dns
dn_reread ==
    /\ dn_pc = "reread"
    /\ dn_reads' = dn_reads + 1
    /\ \/ \E d \in AddressAnswers :
            /\ dn_dns' = d
            /\ dn_pc' = "returned"
            /\ UNCHANGED dn_exc
       \/ /\ dn_pc' = "raised"
          /\ dn_exc' = HTTPException(500, DetailLaunchFailed(ErrUnauthorized))
          /\ UNCHANGED dn_dns
    /\ UNCHANGED <<dnRest, dn_sleeps>>

LaunchNext ==
    \/ lr_role
    \/ lr_validate
    \/ lr_placement
    \/ lr_network
    \/ lr_subnet_zone
    \/ lr_run_instances
    \/ dn_wait
    \/ dn_read
    \/ dn_reread

LaunchSpec == LaunchInit /\ [][LaunchNext]_vars

Called(name) == \E i \in 1..Len(lr_calls) : lr_calls[i] = name
CalledBefore(a, b) ==
    \E i, j \in 1..Len(lr_calls) : i < j /\ lr_calls[i] = a /\ lr_calls[j] = b
HasParam(k) == k \in DOMAIN lr_params

\* The allow-list, by the family part of the type.
HpcFamilies == {"hpc6a", "hpc6id", "hpc7a", "hpc7g"}
IsHpc(t) == LowerAtom(t[1]) \in HpcFamilies

\* C22: for a type of the HPC allow-list the placement group is ensured
\* before run_instances and the request carries Placement.GroupName; for any
\* other type no placement-group call is ever made and no request carries
\* Placement.GroupName.
C22_PlacementGroupForHpcOnly ==
    /\ (IsHpc(lr_type) /\ Called("run_instances"))
       => /\ CalledBefore("describe_placement_groups", "run_instances")
          /\ HasParam("Placement.GroupName")
          /\ lr_params["Placement.GroupName"] = PlacementGroupName
    /\ ~IsHpc(lr_type)
       => /\ ~Called("describe_placement_groups")
          /\ ~Called("create_placement_group")
          /\ ~HasParam("Placement.GroupName")

C22_Witness ==
    /\ lr_type = <<"HPC6A", ".48xlarge">>
    /\ lr_calls = <<"ensure_iam_role", "get_instance_profile",
                    "describe_placement_groups", "create_placement_group",
                    "run_instances">>
    /\ lr_pc = "launched"

\* C23: whenever a placement group is required, the request carries a
\* resolved availability zone in Placement next to the group name: the
\* subnet's zone with a subnet, and some zone without one, whether or not
\* the request names a zone.
C23_PlacementCarriesZone ==
    (IsHpc(lr_type) /\ Called("run_instances"))
    => /\ HasParam("Placement.GroupName")
       /\ HasParam("Placement.AvailabilityZone")
       /\ Truthy(lr_params["Placement.AvailabilityZone"])
       /\ Truthy(lr_subnet) => lr_params["Placement.AvailabilityZone"] = SubnetZone

\* C24: the request names the security group by id together with SubnetId
\* exactly when a subnet was requested, and by name with neither
\* SecurityGroupIds nor SubnetId otherwise; it never names it both ways.
C24_ShapeFollowsSubnet ==
    /\ ~(HasParam("SecurityGroups") /\ HasParam("SecurityGroupIds"))
    /\ Called("run_instances")
       => IF lr_subnet # NoneVal
          THEN /\ HasParam("SecurityGroupIds") /\ lr_params["SecurityGroupIds"] = SgId
               /\ HasParam("SubnetId") /\ lr_params["SubnetId"] = lr_subnet
               /\ ~HasParam("SecurityGroups")
          ELSE /\ HasParam("SecurityGroups")
               /\ lr_params["SecurityGroups"] = SecurityGroupName
               /\ ~HasParam("SecurityGroupIds")
               /\ ~HasParam("SubnetId")

C24_Witness ==
    /\ lr_subnet = SubnetId
    /\ lr_type = <<"hpc7a", ".96xlarge">>
    /\ lr_pc = "launched"
    /\ HasParam("SecurityGroupIds")

SupportedCodes == {"us-east-2", "eu-west-1", "eu-west-3", "eu-north-1", "us-gov-west-1"}
IamFailures ==
    { HTTPException(500, DetailRoleFailed(ErrUnauthorized)),
      HTTPException(500, DetailProfileFailed(ErrUnauthorized)) }

C35_ReturnedAddressNonEmpty ==
    /\ dn_reads <= 2
    /\ dn_sleeps <= 1
    /\ dn_reads = 2 => dn_sleeps = 1
    /\ dn_pc = "returned" => dn_dns # <<>>

\* The second read was empty too and the function returned.
ReturnedEmptyAddress ==
    /\ dn_pc = "returned"
    /\ dn_reads = 2
    /\ dn_dns = <<>>

\* Messages a failed pull command hands to the step, and those among them
\* that docker prints for a repository without an image.
PullMessages == {ErrManifest, ErrEmptyRepo, ErrStderr, OutPartial, ErrDispatch}
NoImageMessages == {ErrManifest, ErrEmptyRepo}

PullRaised == original # NoExc /\ trace # <<>> /\ Last(trace) = "PullAndStartWorkload"

\* C26: when _pull_and_run_container fails, it raises HTTP 404 with the
\* push-an-image remediation if the command's message is the one of a
\* repository without an image, and HTTP 500 "Container deployment failed"
\* for every other message, dispatch failures included.
C26_NoImageIsActionable ==
    PullRaised
    => \E m \in PullMessages :
         original = IF m \in NoImageMessages
                    THEN HTTPException(404, DetailImageNotFound(Repository, m))
                    ELSE HTTPException(500, DetailContainerFailed(m))

C26_Witness ==
    /\ PullRaised
    /\ original.status = 404
    /\ Contains(original.detail, ErrEmptyRepo)
    /\ Contains(original.detail, Sp(<<"Please", "push", "an", "image">>))

\* The text of the error a synchronous call ends with, for the first
\* failure of the run: an HTTPException keeps its detail, any other
\* exception raised inside the try block of _deploy_with_boto3 becomes
\* "Deployment failed: <e>", and one raised before it propagates as it is.
SyncErrorText ==
    IF original.type = "HTTPException" THEN original.detail
    ELSE IF trace # <<>> THEN DetailDeploymentFailed(original.detail)
    ELSE original.detail

\* C27: a failing run reports one error text in both shapes: the error a
\* synchronous call raises and the terminal error event of a streaming run
\* carry the same text for the same failure.
C27_SameErrorTextInBothShapes ==
    /\ (shape = "sync" /\ wpc = "raised") => exc.detail = SyncErrorText
    /\ shape = "stream"
       => \A i \in 1..Len(emitted) :
             IsError(emitted[i]) => emitted[i].data = SyncErrorText

\* ------------------------------------------------------------------------
\* profile_sso_region: the sso_region of a profile in ~/.aws/config
\* ------------------------------------------------------------------------
Profiles == {"dev", "default", "nonexistent"}

\* configparser's default_section, whose keys every section inherits.
DefaultSect == <<"DEFAULT">>
SectionNames == { <<"profile", " ", "dev">>, <<"default">>, DefaultSect }

SsoRegionOf(name) ==
    IF name = <<"default">> THEN <<"eu-west-1">>
    ELSE IF name = DefaultSect THEN <<"us-east-1">>
    ELSE <<"us-west-2">>

\* A section as written: with or without an sso_region line.
SectionBody(name, withKey) ==
    IF withKey
    THEN [k \in {"region", "sso_region"} |->
             IF k = "region" THEN <<"us-east-2">> ELSE SsoRegionOf(name)]
    ELSE [k \in {"region"} |-> <<"us-east-2">>]

\* The files tried: any subset of the sections, each with or without the key.
ConfigFiles ==
    { [exists |-> TRUE,
       sections |-> [n \in present |-> SectionBody(n, n \in keyed)]] :
      present \in SUBSET SectionNames, keyed \in SUBSET SectionNames }

\* section = "profile " + profile if profile != "default" else "default"
AlwaysProfileSection(profile) == <<"profile", " ", profile>>
SectionName(profile) ==
    IF profile # "default" THEN <<"profile", " ", profile>> ELSE <<"default">>

\* cfg.get(section, option, fallback=None): the fallback for a section that
\* is not there, else the section's value, else the inherited one, else the
\* fallback.
ConfigGet(sections, section, option) ==
    IF section \notin DOMAIN sections /\ section # DefaultSect THEN NoneVal
    ELSE IF section \in DOMAIN sections /\ option \in DOMAIN sections[section]
    THEN sections[section][option]
    ELSE IF DefaultSect \in DOMAIN sections /\ option \in DOMAIN sections[DefaultSect]
    THEN sections[DefaultSect][option]
    ELSE NoneVal

SsoInit ==
    /\ CoreIdle
    /\ ImageIdle
    /\ AddressIdle
    /\ IamIdle
    /\ WaitIdle
    /\ MilestoneIdle
    /\ LaunchIdle
    /\ sso_file \in ConfigFiles \cup {NoFile}
    /\ sso_profile \in Profiles
    /\ sso_pc = "exists"
    /\ sso_ret = NoneVal

\* if not aws_config.exists(): return None
sso_exists ==
    /\ sso_pc = "exists"
    /\ sso_pc' = IF sso_file.exists THEN "read" ELSE "returned"
    /\ UNCHANGED <<ssoRest, sso_file, sso_profile, sso_ret>>

\* cfg.read(aws_config); return cfg.get(section, "sso_region", fallback=None)
sso_get ==
    /\ sso_pc = "read"
    /\ sso_ret' = ConfigGet(sso_file.sections, SectionName(sso_profile), "sso_region")
    /\ sso_pc' = "returned"
    /\ UNCHANGED <<ssoRest, sso_file, sso_profile>>

SsoNext == sso_exists \/ sso_get

SsoSpec == SsoInit /\ [][SsoNext]_vars

\* The section of the profile as the file names it, and whether the file
\* gives it an sso_region, directly or through the file-wide defaults.
ProfileSection ==
    IF sso_profile = "default" THEN <<"default">> ELSE <<"profile", " ", sso_profile>>
HasSection == sso_file.exists /\ ProfileSection \in DOMAIN sso_file.sections
OwnKey == HasSection /\ "sso_region" \in DOMAIN sso_file.sections[ProfileSection]
InheritedKey ==
    /\ HasSection
    /\ DefaultSect \in DOMAIN sso_file.sections
    /\ "sso_region" \in DOMAIN sso_file.sections[DefaultSect]

GoneWhileRunning ==
    shape = "stream" /\ ~connected /\ original = NoExc /\ wpc # "exited"

FailedAfterCreation == original # NoExc /\ Truthy(created)

\* C29: when the client disconnects while the deployment is still running,
\* worker and consumer come to their ends, and if the deployment failed
\* after it created an instance, terminate_instances has been called.
C29_DisconnectedFailureStillTerminates ==
    GoneWhileRunning
    ~> (/\ cpc = "closed"
        /\ wpc = "exited"
        /\ FailedAfterCreation => Len(terminate_calls) > 0)

Submitted(name) == Cardinality({i \in 1..Len(requests) : requests[i] = name})

SingleRequests ==
    {"run_instances", "InstallRuntime", "ConfigureCredentials", "PullAndStartWorkload"}

\* C30: within one run the create-instance request and the command of each
\* of the install, configure and pull steps are submitted at most once,
\* whatever the provider answered; the readiness probe is the only request
\* sent again.
C30_NoStepRetried ==
    /\ \A name \in SingleRequests : Submitted(name) <= 1
    /\ \A i \in 1..Len(requests) : requests[i] \in SingleRequests

\* Four probes were sent, every later command once, and the pull failed.
C30_Witness ==
    /\ \E i \in 1..Len(logs) : logs[i] = LogMessage(LogMessage(MsgSsmAttempt(4)))
    /\ requests = <<"run_instances", "InstallRuntime", "PullAndStartWorkload">>
    /\ wpc = "raised"
    /\ original.status = 500

\* ------------------------------------------------------------------------
\* _wait_for_ssm: the whole loop, probe by probe
\* ------------------------------------------------------------------------

\* How a probe can end: a status read back, a ClientError of either call,
\* or another exception.
ProbeStatuses == {"Success", "Failed", "Pending", "InProgress", "Cancelled", "TimedOut"}
ProbeErrors == {"InvalidInstanceId", "AccessDeniedException", "EndpointConnectionError"}

WaitInit ==
    /\ CoreIdle
    /\ ImageIdle
    /\ AddressIdle
    /\ IamIdle
    /\ MilestoneIdle
    /\ LaunchIdle
    /\ SsoIdle
    /\ ws_pc = "attempt"
    /\ ws_attempt = 0
    /\ ws_probes = 0
    /\ ws_sleeps = 0
    /\ ws_last = "None"
    /\ ws_exc = NoExc

\* if attempt < max_retries - 1: time.sleep(10)
AlwaysSleeps(n) == TRUE
SleepsAfter(n) == n < max_retries - 1

\* One pass of `for attempt in range(max_retries)`.
ws_probe ==
    /\ ws_pc = "attempt"
    /\ ws_attempt < max_retries
    /\ ws_probes' = ws_probes + 1
    /\ \E answer \in ProbeStatuses \cup ProbeErrors :
         /\ ws_last' = answer
         /\ IF answer \in ProbeStatuses /\ SsmReady(answer)
            THEN /\ ws_pc' = "returned"
                 /\ UNCHANGED <<ws_attempt, ws_sleeps>>
            ELSE /\ ws_attempt' = ws_attempt + 1
                 /\ ws_sleeps' = IF SleepsAfter(ws_attempt) THEN ws_sleeps + 1
                                 ELSE ws_sleeps
                 /\ UNCHANGED ws_pc
    /\ UNCHANGED <<wsRest, ws_exc>>

\* The loop ran out: raise HTTPException(500, "SSM connection failed ...").
ws_exhausted ==
    /\ ws_pc = "attempt"
    /\ ws_attempt = max_retries
    /\ ws_exc' = HTTPException(500, DetailSsmFailed)
    /\ ws_pc' = "raised"
    /\ UNCHANGED <<wsRest, ws_attempt, ws_probes, ws_sleeps, ws_last>>

WaitNext == ws_probe \/ ws_exhausted

WaitSpec == WaitInit /\ [][WaitNext]_vars

\* The thread running the loop is not starved.
WaitFairSpec == WaitSpec /\ WF_vars(WaitNext)

\* C31: _wait_for_ssm sends at most 30 probes; it returns only after a probe
\* whose status is Success or Failed; it raises HTTP 500 exactly when 30
\* probes ended otherwise; it sleeps between attempts only, never after the
\* 30th; and it always ends.
C31_WaitForSsmBounded ==
    /\ [](/\ ws_probes <= max_retries
          /\ ws_sleeps <= max_retries - 1
          /\ ws_sleeps <= ws_probes
          /\ ws_pc = "returned" => ws_last \in {"Success", "Failed"} /\ ws_exc = NoExc
          /\ ws_pc = "raised"
             => /\ ws_probes = max_retries
                /\ ws_sleeps = max_retries - 1
                /\ ws_last \notin {"Success", "Failed"}
                /\ ws_exc = HTTPException(500, DetailSsmFailed)
          /\ (ws_probes = max_retries /\ ws_last \notin {"Success", "Failed"})
             => ws_pc \in {"attempt", "raised"} /\ ws_sleeps = max_retries - 1)
    /\ <>(ws_pc \in {"returned", "raised"})

C31_Witness ==
    /\ ws_pc = "raised"
    /\ ws_probes = max_retries
    /\ ws_sleeps = max_retries - 1
    /\ ws_last = "Cancelled"


\* ------------------------------------------------------------------------
\* _ensure_iam_role: the execution role and its instance profile
\* ------------------------------------------------------------------------
IamRuns == 2
ProfileProbes == 10

Ec2Service == "ec2.amazonaws.com"
LambdaService == "lambda.amazonaws.com"

\* The account before the first call: no role, or a role that has both
\* policies and trusts EC2 or another service; no instance profile, or one
\* of the role's name that is empty, bound to the role or bound to another.
IamInit ==
    /\ CoreIdle
    /\ ImageIdle
    /\ AddressIdle
    /\ MilestoneIdle
    /\ LaunchIdle
    /\ SsoIdle
    /\ WaitIdle
    /\ iam_pc = "get_role"
    /\ iam_role \in BOOLEAN
    /\ iam_trust \in (IF iam_role THEN {Ec2Service, LambdaService} ELSE {"none"})
    /\ iam_ssm = iam_role
    /\ iam_s3 = iam_role
    /\ iam_profile \in BOOLEAN
    /\ iam_bound \in (IF ~iam_profile THEN {"none"}
                      ELSE IF iam_role THEN {"none", "self", "other"}
                      ELSE {"none", "other"})
    /\ iam_created = FALSE
    /\ iam_probes = 0
    /\ iam_ready = FALSE
    /\ iam_run = 1
    /\ iam_exc = NoExc

IamRaise(e) ==
    /\ iam_exc' = e
    /\ iam_pc' = "raised"

\* add_role_to_instance_profile when the role is not among the profile's
\* roles: LimitExceeded (another role is bound) is swallowed.
AddRole == iam_bound' = IF iam_bound = "none" THEN "self" ELSE iam_bound

\* get_role, and the trust policy check of an existing role
iam_get_role ==
    /\ iam_pc = "get_role"
    /\ \/ /\ ~iam_role
          /\ iam_pc' = "create_role"
          /\ UNCHANGED <<iam_trust, iam_exc>>
       \/ /\ IamRaise(HTTPException(500, DetailRoleFailed(ErrUnauthorized)))
          /\ UNCHANGED iam_trust
       \/ /\ iam_role
          /\ iam_trust' = Ec2Service
          /\ iam_pc' = "get_profile"
          /\ UNCHANGED iam_exc
    /\ UNCHANGED <<iamRest, iam_role, iam_ssm, iam_s3, iam_profile, iam_bound,
                   iam_created, iam_probes, iam_ready, iam_run>>

\* Existing role: get_instance_profile and, if the role is not bound, add it.
\* Any ClientError here leads to the branch that creates the profile.
iam_get_profile ==
    /\ iam_pc = "get_profile"
    /\ \/ /\ iam_profile
          /\ AddRole
          /\ iam_pc' = "returned"
       \/ /\ iam_pc' = "make_profile"
          /\ UNCHANGED iam_bound
    /\ UNCHANGED <<iamRest, iam_role, iam_trust, iam_ssm, iam_s3, iam_profile,
                   iam_created, iam_probes, iam_ready, iam_run, iam_exc>>

\* Existing role without a (readable) profile: create_instance_profile,
\* get_instance_profile, add_role_to_instance_profile.
iam_make_profile ==
    /\ iam_pc = "make_profile"
    /\ \/ /\ iam_profile' = TRUE
          /\ AddRole
          /\ iam_pc' = "wait"
          /\ UNCHANGED iam_exc
       \/ /\ IamRaise(HTTPException(500, DetailRoleFailed(ErrUnauthorized)))
          /\ UNCHANGED <<iam_profile, iam_bound>>
    /\ UNCHANGED <<iamRest, iam_role, iam_trust, iam_ssm, iam_s3,
                   iam_created, iam_probes, iam_ready, iam_run>>

\* NoSuchEntity: create_role with the EC2 trust policy
iam_create_role ==
    /\ iam_pc = "create_role"
    /\ \/ /\ iam_role' = TRUE
          /\ iam_trust' = Ec2Service
          /\ iam_pc' = "attach_role_policy"
          /\ UNCHANGED iam_exc
       \/ /\ IamRaise(ClientError(ErrUnauthorized))
          /\ UNCHANGED <<iam_role, iam_trust>>
    /\ UNCHANGED <<iamRest, iam_ssm, iam_s3, iam_profile, iam_bound,
                   iam_created, iam_probes, iam_ready, iam_run>>

\* attach_role_policy(AmazonSSMManagedInstanceCore)
iam_attach_role_policy ==
    /\ iam_pc = "attach_role_policy"
    /\ \/ /\ iam_ssm' = TRUE
          /\ iam_pc' = "put_role_policy"
          /\ UNCHANGED iam_exc
       \/ /\ IamRaise(ClientError(ErrUnauthorized))
          /\ UNCHANGED iam_ssm
    /\ UNCHANGED <<iamRest, iam_role, iam_trust, iam_s3, iam_profile, iam_bound,
                   iam_created, iam_probes, iam_ready, iam_run>>

\* put_role_policy(<role>-S3Policy)
iam_put_role_policy ==
    /\ iam_pc = "put_role_policy"
    /\ \/ /\ iam_s3' = TRUE
          /\ iam_pc' = "create_profile"
          /\ UNCHANGED iam_exc
       \/ /\ IamRaise(ClientError(ErrUnauthorized))
          /\ UNCHANGED iam_s3
    /\ UNCHANGED <<iamRest, iam_role, iam_trust, iam_ssm, iam_profile, iam_bound,
                   iam_created, iam_probes, iam_ready, iam_run>>

\* New role: create_instance_profile (EntityAlreadyExists is swallowed and
\* leaves profile_created False), get_instance_profile, add the role.
iam_create_profile ==
    /\ iam_pc = "create_profile"
    /\ \/ /\ iam_created' = ~iam_profile
          /\ iam_profile' = TRUE
          /\ AddRole
          /\ iam_pc' = IF ~iam_profile THEN "wait" ELSE "returned"
          /\ UNCHANGED iam_exc
       \/ /\ IamRaise(ClientError(ErrUnauthorized))
          /\ UNCHANGED <<iam_created, iam_profile, iam_bound>>
    /\ UNCHANGED <<iamRest, iam_role, iam_trust, iam_ssm, iam_s3,
                   iam_probes, iam_ready, iam_run>>

\* One pass of `for attempt in range(10)`: get_instance_profile shows the
\* bound role (break), shows none yet, or raises ClientError (pass).
iam_probe ==
    /\ iam_pc = "wait"
    /\ iam_probes < ProfileProbes
    /\ iam_probes' = iam_probes + 1
    /\ \/ /\ iam_bound # "none"
          /\ iam_ready' = TRUE
          /\ iam_pc' = "returned"
       \/ UNCHANGED <<iam_ready, iam_pc>>
    /\ UNCHANGED <<iamRest, iam_role, iam_trust, iam_ssm, iam_s3, iam_profile,
                   iam_bound, iam_created, iam_run, iam_exc>>

\* The loop ends without break: return role_arn
iam_wait_over ==
    /\ iam_pc = "wait"
    /\ iam_probes = ProfileProbes
    /\ iam_pc' = "returned"
    /\ UNCHANGED <<iamRest, iam_role, iam_trust, iam_ssm, iam_s3, iam_profile,
                   iam_bound, iam_created, iam_probes, iam_ready, iam_run, iam_exc>>

\* _launch_ec2_instance after _ensure_iam_role returned: run_instances with
\* IamInstanceProfile naming the profile.
iam_run_instances ==
    /\ iam_pc = "returned"
    /\ iam_pc' = "submitted"
    /\ UNCHANGED <<iamRest, iam_role, iam_trust, iam_ssm, iam_s3, iam_profile,
                   iam_bound, iam_created, iam_probes, iam_ready, iam_run, iam_exc>>

\* A later deployment of the same account calls _ensure_iam_role again.
iam_again ==
    /\ iam_pc = "raised"
    /\ iam_run < IamRuns
    /\ iam_run' = iam_run + 1
    /\ iam_pc' = "get_role"
    /\ iam_created' = FALSE
    /\ iam_probes' = 0
    /\ iam_ready' = FALSE
    /\ iam_exc' = NoExc
    /\ UNCHANGED <<iamRest, iam_role, iam_trust, iam_ssm, iam_s3, iam_profile,
                   iam_bound>>

IamNext ==
    \/ iam_get_role
    \/ iam_get_profile
    \/ iam_make_profile
    \/ iam_create_role
    \/ iam_attach_role_policy
    \/ iam_put_role_policy
    \/ iam_create_profile
    \/ iam_probe
    \/ iam_wait_over
    \/ iam_run_instances
    \/ iam_again

IamSpec == IamInit /\ [][IamNext]_vars

\* C33: whenever _ensure_iam_role returns normally, whatever the account
\* held before (no role, a role with another trust relationship, a role
\* without instance profile, a role an earlier failed call left half
\* configured), the role exists and trusts EC2, the SSM managed policy and
\* the inline S3 policy are attached, and the instance profile of the same
\* name exists with the role bound to it.
C33_ReturnedRoleIsConfigured ==
    iam_pc \in {"returned", "submitted"}
    => /\ iam_role
       /\ iam_trust = Ec2Service
       /\ iam_ssm
       /\ iam_s3
       /\ iam_profile
       /\ iam_bound = "self"

\* C34: the propagation wait makes at most 10 probes, and when the last
\* probe still shows no bound role _ensure_iam_role fails: it does not
\* return, and no create-instance request follows.
C34_ExhaustedWaitIsFatal ==
    /\ iam_probes <= 10
    /\ (iam_probes = 10 /\ ~iam_ready /\ iam_pc # "wait") => iam_pc = "raised"


\* A second call returned normally for a role the first call created and
\* then left without its policies.
HalfConfiguredReturned ==
    /\ iam_pc = "returned"
    /\ iam_run = 2
    /\ iam_role
    /\ ~iam_ssm
    /\ ~iam_s3

\* The wait loop made all its probes, none showed a bound role, and the
\* create-instance request followed.
SubmittedAfterExhaustedWait ==
    /\ iam_pc = "submitted"
    /\ iam_probes = ProfileProbes
    /\ ~iam_ready


\* ------------------------------------------------------------------------
\* _get_latest_ami and _pull_and_run_container: GPU or CPU
\* ------------------------------------------------------------------------
ImageTypes ==
    { <<"g5", ".xlarge">>, <<"G5", ".xlarge">>, <<"g4", "dn", ".xlarge">>,
      <<"inf1", ".xlarge">>, <<"p3", ".2xlarge">>, <<"t3", ".medium">>,
      <<"hpc7a", ".96xlarge">> }
ImageRepos == { <<"fbpic">>, <<"fbpic", "-", "cpu">>, <<"CPU", "-", "solver">> }
AmiTypes == { NoneVal, <<"auto">>, <<"al2023">>, <<"deep-learning-gpu">>,
              <<"ubuntu-22">>, <<"custom">> }

GpuFlag == Sp(<<"--gpus", "all">>)

ImageInit ==
    /\ CoreIdle
    /\ MilestoneIdle
    /\ LaunchIdle
    /\ SsoIdle
    /\ WaitIdle
    /\ IamIdle
    /\ AddressIdle
    /\ im_pc = "get_latest_ami"
    /\ im_type \in ImageTypes
    /\ im_repo \in ImageRepos
    /\ im_ami_type \in AmiTypes
    /\ im_image = "none"
    /\ im_flag = <<>>
    /\ im_exc = NoExc

\* The image _get_latest_ami looks up when no custom ami_id is given.
TargetImage(ami_type, repository) ==
    IF ami_type = <<"al2023">> THEN "cpu"
    ELSE IF ami_type = <<"deep-learning-gpu">> THEN "gpu"
    ELSE IF ami_type = <<"ubuntu-22">> THEN "ubuntu"
    ELSE IF ami_type = <<"auto">> \/ ami_type = NoneVal
         THEN IF Contains(Lower(repository), <<"cpu">>) THEN "cpu" ELSE "gpu"
    ELSE "cpu"

\* gpu_flag of _pull_and_run_container
gpu_families == <<"g3", "g4", "g5", "p2", "p4", "p5", "inf1", "inf2", "trn1">>
is_gpu_instance(instance_type) ==
    \E i \in 1..Len(gpu_families) :
        Contains(Lower(instance_type), <<gpu_families[i]>>)
is_cpu_repo(repository) == Contains(Lower(repository), <<"cpu">>)
gpu_flag(instance_type, repository) ==
    IF is_gpu_instance(instance_type) /\ ~is_cpu_repo(repository) THEN GpuFlag
    ELSE <<>>

\* _get_latest_ami(..., ami_id=None, ami_type=req.ami_type)
im_get_latest_ami ==
    /\ im_pc = "get_latest_ami"
    /\ \/ /\ im_image' = TargetImage(im_ami_type, im_repo)
          /\ im_pc' = "pull_and_run_container"
          /\ UNCHANGED im_exc
       \/ /\ im_exc' = HTTPException(500, DetailAmiFailed(<<"ClientError">>))
          /\ im_pc' = "raised"
          /\ UNCHANGED im_image
    /\ UNCHANGED <<imRest, im_type, im_repo, im_ami_type, im_flag>>

\* _pull_and_run_container(..., req.repository, ..., req.instance_type, log)
im_pull_and_run_container ==
    /\ im_pc = "pull_and_run_container"
    /\ im_flag' = gpu_flag(im_type, im_repo)
    /\ im_pc' = "started"
    /\ UNCHANGED <<imRest, im_type, im_repo, im_ami_type, im_image, im_exc>>

ImageNext == im_get_latest_ami \/ im_pull_and_run_container

ImageSpec == ImageInit /\ [][ImageNext]_vars

\* C40: for a request without custom image, the container is started with
\* the GPU runtime flag iff the image that was resolved is the GPU image,
\* for all instance types, repository names and ami_type selections.
C40_GpuFlagAgreesWithImage ==
    im_pc = "started" => (im_flag = GpuFlag <=> im_image = "gpu")

\* The GPU image was resolved and the container started without the flag.
GpuImageWithoutFlag ==
    /\ im_pc = "started"
    /\ im_ami_type = NoneVal
    /\ im_repo = <<"fbpic">>
    /\ im_type = <<"t3", ".medium">>
    /\ im_image = "gpu"
    /\ im_flag = <<>>

\* The CPU image was resolved and the container started with the flag.
CpuImageWithFlag ==
    /\ im_pc = "started"
    /\ im_ami_type = <<"al2023">>
    /\ im_image = "cpu"
    /\ im_flag = GpuFlag

====
